---------------------------- MODULE Spec2Model ----------------------------
(***************************************************************************)
(* The password/secret decoding engine of backend/src/routes/tools.js:     *)
(* decryptCiscoType7, decryptJuniperType9, decodeBase64, checkMD5Hash and  *)
(* the switch of POST /password-decrypt that selects one of them; and the  *)
(* server that passes several requests at a time through optionalAuth      *)
(* (backend/src/middleware/auth.js) and that handler.                      *)
(*                                                                         *)
(* A JavaScript string is modelled as the sequence of its UTF-16 code      *)
(* units (naturals); index i of the source is index i + 1 here.            *)
(***************************************************************************)
EXTENDS Integers, Sequences, FiniteSets, TLC

VARIABLES
  encryptedPassword,  \* req.body.encryptedPassword
  vendorType,         \* req.body.vendorType
  result,             \* the handler's local `result`
  error,              \* the exception the handler's catch block has caught
  calls,              \* the decoders the handler has called, in order
  response,           \* what the handler has sent: res.status(..).json(..)
  usageLog,           \* the calls of logToolUsage made so far
  pc,                 \* where the handler is: "start", "respond", "catch",
                      \* "done" ("encode" while the round-trip test builds
                      \* its input)
  salt,               \* round-trip harness: the salt the test encodes with
  plain,              \* round-trip harness: the plaintext the test encodes
  inflight,           \* the requests a server is handling at the same time
  loop,               \* decryptJuniperType9 run step by step: the locals of
                      \* its while loop
  db,                 \* routes/accounts.js: the tables accounts and users
  handlers,           \* routes/accounts.js: the requests being handled
  subnet,             \* POST /subnet-calculator: its request, position and
                      \* response
  scan                \* POST /network-scan: its request, position, the
                      \* sockets' promises and its response

vars ==
  <<encryptedPassword, vendorType, result, error, calls, response, usageLog, pc,
    salt, plain, inflight, loop, db, handlers, subnet, scan>>

\* The variables of the other parts of the program, which the handler of
\* POST /password-decrypt leaves alone.
elsewhere == <<loop, db, handlers, subnet, scan>>

---------------------------------------------------------------------------
(* Characters.                                                             *)

\* The printable ASCII characters, code units 32..126 in order (code unit 96,
\* the grave accent, is written by its name).
Ascii ==
  <<
    " ", "!", "\"", "#", "$", "%", "&", "'", "(", ")", "*", "+", ",", "-", ".", "/",
    "0", "1", "2", "3", "4", "5", "6", "7", "8", "9", ":", ";", "<", "=", ">", "?",
    "@", "A", "B", "C", "D", "E", "F", "G", "H", "I", "J", "K", "L", "M", "N", "O",
    "P", "Q", "R", "S", "T", "U", "V", "W", "X", "Y", "Z", "[", "\\", "]", "^", "_",
    "grave", "a", "b", "c", "d", "e", "f", "g", "h", "i", "j", "k", "l", "m", "n", "o",
    "p", "q", "r", "s", "t", "u", "v", "w", "x", "y", "z", "{", "|", "}", "~"
  >>

\* The code unit of a printable ASCII character.
Code(ch) == 31 + (CHOOSE i \in 1..Len(Ascii) : Ascii[i] = ch)

\* The string whose characters are `chars`.
RECURSIVE Str(_)
Str(chars) ==
  IF chars = <<>> THEN <<>> ELSE <<Code(Head(chars))>> \o Str(Tail(chars))

\* All strings over the code units `cs` with between 0 and n characters.
RECURSIVE StringsUpTo(_, _)
StringsUpTo(cs, n) ==
  IF n = 0 THEN {<<>>}
  ELSE LET shorter == StringsUpTo(cs, n - 1)
       IN  shorter \cup {Append(s, c) : s \in shorter, c \in cs}

---------------------------------------------------------------------------
(* The JavaScript built-ins the decoders call.                             *)

\* The number NaN, which no arithmetic of the decoders otherwise produces.
NaN == -1

Min(a, b) == IF a < b THEN a ELSE b
Max(a, b) == IF a < b THEN b ELSE a

\* String.prototype.substring's argument conversion: NaN and negatives are 0,
\* values past the end are the length.
ClampIndex(n, len) == IF n = NaN \/ n < 0 THEN 0 ELSE Min(n, len)

\* String.prototype.substring(start, end): the code units at the 0-based
\* positions [min, max) of the clamped arguments.
substring(s, start, end) ==
  LET a == ClampIndex(start, Len(s))
      b == ClampIndex(end, Len(s))
  IN  SubSeq(s, Min(a, b) + 1, Max(a, b))

\* String.prototype.substring(start): to the end of the string.
substringFrom(s, start) == substring(s, start, Len(s))

\* The value of a code unit as a digit (0-9, then letters of either case
\* from 10); 36 for a code unit that is no digit in any radix.
DigitValue(c) ==
  IF c \in 48..57 THEN c - 48
  ELSE IF c \in 65..90 THEN c - 55
  ELSE IF c \in 97..122 THEN c - 87
  ELSE 36

RECURSIVE ParseDigits(_, _, _, _)
ParseDigits(s, radix, i, acc) ==
  IF i > Len(s) \/ DigitValue(s[i]) >= radix THEN acc
  ELSE ParseDigits(s, radix, i + 1, acc * radix + DigitValue(s[i]))

\* parseInt(s, radix) on a string without white space, sign or 0x prefix
\* (the decoders only parse pieces of a string that passed the hex regex):
\* the value of the longest prefix of digits of the radix, NaN when that
\* prefix is empty.
parseInt(s, radix) ==
  IF Len(s) = 0 \/ DigitValue(s[1]) >= radix THEN NaN
  ELSE ParseDigits(s, radix, 1, 0)

\* String.prototype.charCodeAt(index): ToIntegerOrInfinity(NaN) is 0; NaN
\* for a position outside the string.
charCodeAt(s, index) ==
  LET pos == IF index = NaN THEN 0 ELSE index
  IN  IF pos >= 0 /\ pos < Len(s) THEN s[pos + 1] ELSE NaN

\* a ^ b on non-negative integers below 2^32; ToInt32(NaN) is 0.
RECURSIVE XorBits(_, _)
XorBits(a, b) ==
  IF a = 0 THEN b
  ELSE IF b = 0 THEN a
  ELSE (((a % 2) + (b % 2)) % 2) + 2 * XorBits(a \div 2, b \div 2)

BitXor(a, b) ==
  XorBits(IF a = NaN THEN 0 ELSE a, IF b = NaN THEN 0 ELSE b)

\* String.fromCharCode(n): the code unit ToUint16(n).
fromCharCode(n) == n % 65536

\* String.prototype.toLowerCase on ASCII text.
RECURSIVE toLowerCase(_)
toLowerCase(s) ==
  IF s = <<>> THEN <<>>
  ELSE <<IF Head(s) \in 65..90 THEN Head(s) + 32 ELSE Head(s)>> \o toLowerCase(Tail(s))

\* String.prototype.charAt(index): a string of one code unit, or the empty
\* string for a position outside the string.
charAt(s, index) == substring(s, index, index + 1)

\* String.prototype.indexOf(t): the 0-based position of the first occurrence
\* of the string t, -1 when there is none.
indexOf(s, t) ==
  LET hits == {p \in 0..(Len(s) - Len(t)) : SubSeq(s, p + 1, p + Len(t)) = t}
  IN  IF hits = {} THEN -1 ELSE CHOOSE p \in hits : \A q \in hits : p <= q

\* Mutant of startsWith: includes(prefix).
startsWithAnywhere(s, prefix) == indexOf(s, prefix) >= 0

\* String.prototype.startsWith(prefix).
startsWith(s, prefix) ==
  Len(s) >= Len(prefix) /\ SubSeq(s, 1, Len(prefix)) = prefix

\* The JavaScript remainder a % n for n > 0: it has the sign of a.
JsRem(a, n) == IF a >= 0 THEN a % n ELSE -((-a) % n)

---------------------------------------------------------------------------
(* JavaScript values that are not strings.                                 *)

\* undefined, null, and a function or object inherited from Object.prototype.
\* Each is written as a sequence holding one negative number, which is the
\* code units of no string.
Undefined == <<-1>>
Null == <<-2>>
InheritedObject == <<-3>>

\* JSON values a request body can carry in place of a string: the number 94,
\* true, the array ["094F471A1A0A"] and the object {}.
NumberValue == <<-4>>
TrueValue == <<-5>>
ArrayValue == <<-6>>
ObjectValue == <<-7>>

NonStrings ==
  {Undefined, Null, InheritedObject, NumberValue, TrueValue, ArrayValue, ObjectValue}

\* typeof v === 'string'
IsString(v) == v \notin NonStrings

\* Mutant of Truthy: a test for a missing value (v != null) in place of
\* ToBoolean.
TruthyNotNull(v) == v # Undefined /\ v # Null

\* ToBoolean of a string (false when empty) or of one of the values above.
Truthy(v) == v # <<>> /\ v # Undefined /\ v # Null

\* The conversion ToString of a value of a request body, as
\* RegExp.prototype.test applies it to its argument.
JsToString(v) ==
  IF IsString(v) THEN v
  ELSE IF v = NumberValue THEN Str(<<"9", "4">>)
  ELSE IF v = TrueValue THEN Str(<<"t", "r", "u", "e">>)
  ELSE IF v = ArrayValue
    THEN Str(<<"0", "9", "4", "F", "4", "7", "1", "A", "1", "A", "0", "A">>)
  ELSE IF v = ObjectValue
    THEN Str(<<"[", "o", "b", "j", "e", "c", "t", " ", "O", "b", "j", "e", "c", "t", "]">>)
  ELSE IF v = Null THEN Str(<<"n", "u", "l", "l">>)
  ELSE Str(<<"u", "n", "d", "e", "f", "i", "n", "e", "d">>)

\* A call that ends in `throw`: the exception's message.  A function that
\* returns gives its value instead.
Throw(message) == [threw |-> message]
Threw(outcome) == "threw" \in DOMAIN outcome

---------------------------------------------------------------------------
(* Cisco Type 7.                                                           *)

key ==
  Str(<<
    "d", "s", "f", "d", ";", "k", "f", "o", "A", ",", ".", "i", "y", "e", "w", "r",
    "k", "l", "d", "J", "K", "D", "H", "S", "U", "B", "s", "g", "v", "c", "a", "6",
    "9", "8", "3", "4", "n", "c", "x", "v", "9", "8", "7", "3", "2", "5", "4", "k",
    ";", "f", "g", "8", "7"
  >>)

\* /^[0-9A-Fa-f]+$/.test(encrypted)
IsHexDigit(c) == c \in 48..57 \/ c \in 65..70 \/ c \in 97..102
\* Mutant of HexRegexTest: the pattern without its anchors.
HexRegexTestUnanchored(s) == \E i \in 1..Len(s) : IsHexDigit(s[i])

HexRegexTest(s) == Len(s) >= 1 /\ \A i \in 1..Len(s) : IsHexDigit(s[i])

\* Mutants of CiscoKeyIndex: the salt left out; the wrap at the end of the
\* key left out.
CiscoKeyIndexNoSalt(i, s) == ((i \div 2) - 1) % Len(key)
CiscoKeyIndexNoWrap(i, s) == IF s = NaN THEN NaN ELSE (i \div 2) - 1 + s

\* (i / 2 - 1 + salt) % key.length, i even; NaN when salt is NaN.
CiscoKeyIndex(i, s) ==
  IF s = NaN THEN NaN ELSE ((i \div 2) - 1 + s) % Len(key)

\* Mutant of CiscoSalt: the salt kept in a variable of the module and moved
\* on by one at every call the server has logged.
CiscoSaltCarried(encrypted) ==
  IF parseInt(substring(encrypted, 0, 2), 10) = NaN THEN NaN
  ELSE parseInt(substring(encrypted, 0, 2), 10) + Len(usageLog)

\* Mutant of CiscoSalt: the salt read in base 16.
CiscoSaltHex(encrypted) == parseInt(substring(encrypted, 0, 2), 16)

\* The salt: parseInt(encrypted.substring(0, 2), 10).
CiscoSalt(encrypted) == parseInt(substring(encrypted, 0, 2), 10)

\* One turn of the for loop, for the pair that starts at 0-based position i.
CiscoChar(encrypted, s, i) ==
  LET hexPair == substring(encrypted, i, i + 2)
      decimal == parseInt(hexPair, 16)
      keyIndex == CiscoKeyIndex(i, s)
      keyChar == charCodeAt(key, keyIndex)
  IN  fromCharCode(BitXor(decimal, keyChar))

\* for (let i = 2; i < encrypted.length; i += 2) decrypted += decryptedChar
RECURSIVE CiscoLoop(_, _, _, _)
CiscoLoop(encrypted, s, i, decrypted) ==
  IF ~(i < Len(encrypted)) THEN decrypted
  ELSE CiscoLoop(encrypted, s, i + 2, Append(decrypted, CiscoChar(encrypted, s, i)))

CiscoFormatMessage == "Invalid Cisco Type 7 format"

\* "Decryption failed: " + error.message for the TypeError of calling the
\* method `substring`, which only a string has.
CiscoCaughtMessage == "Decryption failed: encrypted.substring is not a function"

\* Mutant of decryptCiscoType7: the format failure returned with the local
\* `decrypted` in it.
decryptCiscoType7Partial(encrypted) ==
  IF ~HexRegexTest(JsToString(encrypted))
  THEN [success |-> FALSE, message |-> CiscoFormatMessage, decrypted |-> <<>>]
  ELSE IF ~IsString(encrypted)
  THEN [success |-> FALSE, message |-> CiscoCaughtMessage]
  ELSE [success |-> TRUE,
        decrypted |-> CiscoLoop(encrypted, CiscoSalt(encrypted), 2, <<>>)]

\* The regex tests JsToString(encrypted); the try block then throws on its
\* first statement when `encrypted` is no string, and the catch returns.
decryptCiscoType7(encrypted) ==
  IF ~HexRegexTest(JsToString(encrypted))
  THEN [success |-> FALSE, message |-> CiscoFormatMessage]
  ELSE IF ~IsString(encrypted)
  THEN [success |-> FALSE, message |-> CiscoCaughtMessage]
  ELSE [success |-> TRUE,
        decrypted |-> CiscoLoop(encrypted, CiscoSalt(encrypted), 2, <<>>)]

---------------------------------------------------------------------------
(* Juniper Type 9.                                                         *)

JUNIPER_ENCODING ==
  << <<1, 4, 32>>,
     <<1, 16, 32>>,
     <<1, 8, 32>>,
     <<1, 64>>,
     <<1, 32>>,
     <<1, 4, 16, 128>>,
     <<1, 32, 64>> >>

JUNIPER_KEYS ==
  << Str(<<"Q", "z", "F", "3", "n", "6", "/", "9", "C", "A", "t", "p", "u", "0", "O">>),
     Str(<<"B", "1", "I", "R", "E", "h", "c", "S", "y", "r", "l", "e", "K", "v", "M", "W",
           "8", "L", "X", "x">>),
     Str(<<"7", "N", "-", "d", "V", "b", "w", "s", "Y", "2", "g", "4", "o", "a", "J", "Z",
           "G", "U", "D", "j">>),
     Str(<<"i", "H", "k", "q", ".", "m", "P", "f", "5", "T">>) >>

\* JUNIPER_KEYS.join("")
JUNIPER_KEYS_STRING ==
  JUNIPER_KEYS[1] \o JUNIPER_KEYS[2] \o JUNIPER_KEYS[3] \o JUNIPER_KEYS[4]

JUNIPER_KEYS_LENGTH == Len(JUNIPER_KEYS_STRING)

\* Mutant of JuniperSkipChars: the family index without the + 1.
JuniperSkipCharsFamily(character) ==
  LET idxs == {idx \in 0..(Len(JUNIPER_KEYS) - 1) : indexOf(JUNIPER_KEYS[idx + 1], character) >= 0}
  IN  IF Len(character) # 1 \/ idxs = {} THEN NaN
      ELSE 3 - (CHOOSE idx \in idxs : \A other \in idxs : other <= idx)

\* JUNIPER_CHARACTER_KEYS[character] + 1: the table maps each character of
\* JUNIPER_KEYS[idx] (idx from 0) to 3 - idx, the last assignment winning;
\* any other property name reads undefined, and undefined + 1 is NaN.
JuniperSkipChars(character) ==
  LET idxs == {idx \in 0..(Len(JUNIPER_KEYS) - 1) : indexOf(JUNIPER_KEYS[idx + 1], character) >= 0}
  IN  IF Len(character) # 1 \/ idxs = {} THEN NaN
      ELSE (3 - (CHOOSE idx \in idxs : \A other \in idxs : other <= idx)) + 1

JuniperPrefix == Str(<<"$", "9", "$">>)

\* encryptedPassword.split("$9$")[1] for a string that starts with "$9$": the
\* text between that prefix and the next "$9$", or the end of the string.
JuniperPasswordCharacters(encryptedPwd) ==
  LET rest == substringFrom(encryptedPwd, Len(JuniperPrefix))
      next == indexOf(rest, JuniperPrefix)
  IN  IF next = -1 THEN rest ELSE substring(rest, 0, next)

\* Mutant of JuniperGap: the remainder taken once, its sign left as it is.
JuniperGapSigned(charIndex, prevCharIndex) ==
  JsRem(charIndex - prevCharIndex, JUNIPER_KEYS_LENGTH) - 1

\* gap = charIndex - prevCharIndex;
\* gap = ((gap % LENGTH) + LENGTH) % LENGTH; gap = gap - 1
JuniperGap(charIndex, prevCharIndex) ==
  LET gap == charIndex - prevCharIndex
  IN  JsRem(JsRem(gap, JUNIPER_KEYS_LENGTH) + JUNIPER_KEYS_LENGTH, JUNIPER_KEYS_LENGTH) - 1

\* The inner for loop over the nibble: the value and the previousChar it
\* leaves.
RECURSIVE JuniperNibble(_, _, _, _, _)
JuniperNibble(nibble, decode, index, value, previousChar) ==
  IF ~(index < Len(nibble)) THEN [value |-> value, previousChar |-> previousChar]
  ELSE LET char == charAt(nibble, index)
           prevCharIndex == indexOf(JUNIPER_KEYS_STRING, previousChar)
           charIndex == indexOf(JUNIPER_KEYS_STRING, char)
           gap == JuniperGap(charIndex, prevCharIndex)
       IN  JuniperNibble(nibble, decode, index + 1, value + gap * decode[index + 1], char)

\* Mutant of JuniperIteration: a nibble shorter than its row is dropped
\* without an output.
JuniperIterationWholeRows(l) ==
  LET decode == JUNIPER_ENCODING[(Len(l.decryptedPassword) % Len(JUNIPER_ENCODING)) + 1]
      nibble == substring(l.strippedPasswordCharacters, 0, Len(decode))
      out == JuniperNibble(nibble, decode, 0, 0, l.previousChar)
  IN  [strippedPasswordCharacters |-> substringFrom(l.strippedPasswordCharacters, Len(decode)),
       previousChar |-> out.previousChar,
       decryptedPassword |-> IF Len(nibble) < Len(decode) THEN l.decryptedPassword
                             ELSE Append(l.decryptedPassword, fromCharCode(out.value)),
       value |-> out.value]

\* One pass through the body of the while loop: the row of the output
\* length, the nibble cut from the front, its value, and the character
\* appended.  `value` is the local the pass leaves behind.
JuniperIteration(l) ==
  LET decode == JUNIPER_ENCODING[(Len(l.decryptedPassword) % Len(JUNIPER_ENCODING)) + 1]
      nibble == substring(l.strippedPasswordCharacters, 0, Len(decode))
      out == JuniperNibble(nibble, decode, 0, 0, l.previousChar)
  IN  [strippedPasswordCharacters |-> substringFrom(l.strippedPasswordCharacters, Len(decode)),
       previousChar |-> out.previousChar,
       decryptedPassword |-> Append(l.decryptedPassword, fromCharCode(out.value)),
       value |-> out.value]

\* while (strippedPasswordCharacters.length > 0) { ... }
RECURSIVE JuniperLoop(_, _, _)
JuniperLoop(strippedPasswordCharacters, previousChar, decryptedPassword) ==
  IF ~(Len(strippedPasswordCharacters) > 0) THEN decryptedPassword
  ELSE LET next == JuniperIteration([strippedPasswordCharacters |-> strippedPasswordCharacters,
                                     previousChar |-> previousChar,
                                     decryptedPassword |-> decryptedPassword])
       IN  JuniperLoop(next.strippedPasswordCharacters, next.previousChar,
                       next.decryptedPassword)

\* Mutant of JuniperStart: the previous character taken after the skip.
JuniperStartAfterSkip(encryptedPwd) ==
  LET passwordCharacters == JuniperPasswordCharacters(encryptedPwd)
      firstCharacter == charAt(passwordCharacters, 0)
      stripped == substringFrom(passwordCharacters, JuniperSkipChars(firstCharacter))
  IN  [strippedPasswordCharacters |-> stripped,
       previousChar |-> charAt(stripped, 0),
       decryptedPassword |-> <<>>]

\* The locals when the while loop is first reached: the remainder without its
\* skipped characters, previousChar = firstCharacter, decryptedPassword = "".
JuniperStart(encryptedPwd) ==
  LET passwordCharacters == JuniperPasswordCharacters(encryptedPwd)
      firstCharacter == charAt(passwordCharacters, 0)
      skipChars == JuniperSkipChars(firstCharacter)
  IN  [strippedPasswordCharacters |-> substringFrom(passwordCharacters, skipChars),
       previousChar |-> firstCharacter,
       decryptedPassword |-> <<>>]

JuniperFormatMessage == "Not a valid Juniper Type 9 password"

\* The TypeError of calling the method `startsWith`, which only a string
\* has; the call stands before the try block.
JuniperTypeError == "encryptedPassword.startsWith is not a function"

decryptJuniperType9(encryptedPwd) ==
  IF ~IsString(encryptedPwd) THEN Throw(JuniperTypeError)
  ELSE IF ~startsWith(encryptedPwd, JuniperPrefix)
  THEN [success |-> FALSE, message |-> JuniperFormatMessage]
  ELSE LET start == JuniperStart(encryptedPwd)
       IN  [success |-> TRUE,
            decrypted |-> JuniperLoop(start.strippedPasswordCharacters, start.previousChar,
                                      start.decryptedPassword)]

---------------------------------------------------------------------------
(* Base64: Buffer.from(encoded, 'base64').toString('utf8').                *)

\* The 6-bit value of a code unit of the base64 or base64url alphabet; 64
\* for any other code unit.
Base64Value(c) ==
  IF c \in Code("A")..Code("Z") THEN c - Code("A")
  ELSE IF c \in Code("a")..Code("z") THEN c - Code("a") + 26
  ELSE IF c \in Code("0")..Code("9") THEN c - Code("0") + 52
  ELSE IF c = Code("+") \/ c = Code("-") THEN 62
  ELSE IF c = Code("/") \/ c = Code("_") THEN 63
  ELSE 64

\* The decoder reads on from position i: a code unit outside the alphabet is
\* skipped, and the first '=' ends the decoding.
RECURSIVE Base64Sextets(_, _)
Base64Sextets(s, i) ==
  IF i > Len(s) \/ s[i] = Code("=") THEN <<>>
  ELSE IF Base64Value(s[i]) < 64 THEN <<Base64Value(s[i])>> \o Base64Sextets(s, i + 1)
  ELSE Base64Sextets(s, i + 1)

\* Four 6-bit values give three bytes, three give two, two give one, and a
\* single trailing value gives none.
RECURSIVE Base64Bytes(_)
Base64Bytes(v) ==
  IF Len(v) < 2 THEN <<>>
  ELSE LET b1 == v[1] * 4 + (v[2] \div 16)
       IN  IF Len(v) = 2 THEN <<b1>>
           ELSE LET b2 == (v[2] % 16) * 16 + (v[3] \div 4)
                IN  IF Len(v) = 3 THEN <<b1, b2>>
                    ELSE <<b1, b2, (v[3] % 4) * 64 + v[4]>>
                           \o Base64Bytes(SubSeq(v, 5, Len(v)))

\* Buffer.from(encoded, 'base64') on a string: never throws.
BufferFromBase64(encoded) == Base64Bytes(Base64Sextets(encoded, 1))

\* Buffer.from(value) on a value that is no string: an array gives one byte
\* per element, ToNumber(element) & 255 (0 for the text "094F471A1A0A", which
\* is NaN as a number); a number, a boolean or a plain object throws a
\* TypeError.
BufferFromArray == <<0>>
BufferFromThrows(value) == value \in {NumberValue, TrueValue, ObjectValue}

\* The UTF-16 code units of a code point.
CodeUnits(cp) ==
  IF cp < 65536 THEN <<cp>>
  ELSE <<55296 + ((cp - 65536) \div 1024), 56320 + ((cp - 65536) % 1024)>>

\* buf.toString('utf8') from byte i on: each well-formed sequence gives its
\* code point, each maximal ill-formed part gives U+FFFD.
RECURSIVE Utf8Decode(_, _)
Utf8Decode(b, i) ==
  IF i > Len(b) THEN <<>>
  ELSE
    LET b0 == b[i]
        need == IF b0 < 128 THEN 0
                ELSE IF b0 \in 194..223 THEN 1
                ELSE IF b0 \in 224..239 THEN 2
                ELSE IF b0 \in 240..244 THEN 3
                ELSE -1
        lo2 == IF b0 = 224 THEN 160 ELSE IF b0 = 240 THEN 144 ELSE 128
        hi2 == IF b0 = 237 THEN 159 ELSE IF b0 = 244 THEN 143 ELSE 191
        ok1 == need >= 1 /\ i + 1 <= Len(b) /\ b[i + 1] \in lo2..hi2
        ok2 == ok1 /\ need >= 2 /\ i + 2 <= Len(b) /\ b[i + 2] \in 128..191
        ok3 == ok2 /\ need >= 3 /\ i + 3 <= Len(b) /\ b[i + 3] \in 128..191
        got == IF ok3 THEN 3 ELSE IF ok2 THEN 2 ELSE IF ok1 THEN 1 ELSE 0
        cp == IF need = 1 THEN (b0 - 192) * 64 + (b[i + 1] - 128)
              ELSE IF need = 2
                THEN (b0 - 224) * 4096 + (b[i + 1] - 128) * 64 + (b[i + 2] - 128)
              ELSE (b0 - 240) * 262144 + (b[i + 1] - 128) * 4096
                     + (b[i + 2] - 128) * 64 + (b[i + 3] - 128)
    IN  IF need = 0 THEN <<b0>> \o Utf8Decode(b, i + 1)
        ELSE IF need = -1 THEN <<65533>> \o Utf8Decode(b, i + 1)
        ELSE IF got = need THEN CodeUnits(cp) \o Utf8Decode(b, i + need + 1)
        ELSE <<65533>> \o Utf8Decode(b, i + got + 1)

Base64FormatMessage == "Invalid Base64 format"

\* The try block cannot throw on a string, so the catch branch is never
\* taken for one.
decodeBase64(encoded) ==
  IF BufferFromThrows(encoded)
  THEN [success |-> FALSE, message |-> Base64FormatMessage]
  ELSE IF encoded = ArrayValue
  THEN [success |-> TRUE, decrypted |-> Utf8Decode(BufferFromArray, 1)]
  ELSE [success |-> TRUE, decrypted |-> Utf8Decode(BufferFromBase64(encoded), 1)]

---------------------------------------------------------------------------
(* MD5 lookup.                                                             *)

\* The own properties of the object literal, as <<digest, password>>.
knownHashes ==
  <<
    << Str(<<
        "5", "f", "4", "d", "c", "c", "3", "b", "5", "a", "a", "7", "6", "5", "d",
        "6", "1", "d", "8", "3", "2", "7", "d", "e", "b", "8", "8", "2", "c", "f",
        "9", "9"
      >>),
       Str(<<"p", "a", "s", "s", "w", "o", "r", "d">>) >>,
    << Str(<<
        "e", "1", "0", "a", "d", "c", "3", "9", "4", "9", "b", "a", "5", "9", "a",
        "b", "b", "e", "5", "6", "e", "0", "5", "7", "f", "2", "0", "f", "8", "8",
        "3", "e"
      >>),
       Str(<<"1", "2", "3", "4", "5", "6">>) >>,
    << Str(<<
        "2", "5", "d", "5", "5", "a", "d", "2", "8", "3", "a", "a", "4", "0", "0",
        "a", "f", "4", "6", "4", "c", "7", "6", "d", "7", "1", "3", "c", "0", "7",
        "a", "d"
      >>),
       Str(<<"1", "2", "3", "4", "5", "6", "7", "8">>) >>,
    << Str(<<
        "5", "e", "b", "6", "3", "b", "b", "b", "e", "0", "1", "e", "e", "e", "d",
        "0", "9", "3", "c", "b", "2", "2", "b", "b", "8", "f", "5", "a", "c", "d",
        "c", "3"
      >>),
       Str(<<"h", "e", "l", "l", "o">>) >>,
    << Str(<<
        "0", "9", "8", "f", "6", "b", "c", "d", "4", "6", "2", "1", "d", "3", "7",
        "3", "c", "a", "d", "e", "4", "e", "8", "3", "2", "6", "2", "7", "b", "4",
        "f", "6"
      >>),
       Str(<<"t", "e", "s", "t">>) >>,
    << Str(<<
        "8", "2", "7", "c", "c", "b", "0", "e", "e", "a", "8", "a", "7", "0", "6",
        "c", "4", "c", "3", "4", "a", "1", "6", "8", "9", "1", "f", "8", "4", "e",
        "7", "b"
      >>),
       Str(<<"1", "2", "3", "4", "5">>) >>
  >>
\* The property names every object literal inherits from Object.prototype;
\* each reads as a function, __proto__ as the prototype object.
ObjectPrototypeNames ==
  {
    Str(<<"c", "o", "n", "s", "t", "r", "u", "c", "t", "o", "r">>),
    Str(<<"_", "_", "p", "r", "o", "t", "o", "_", "_">>),
    Str(<<"h", "a", "s", "O", "w", "n", "P", "r", "o", "p", "e", "r", "t", "y">>),
    Str(<<"i", "s", "P", "r", "o", "t", "o", "t", "y", "p", "e", "O", "f">>),
    Str(<<
      "p", "r", "o", "p", "e", "r", "t", "y", "I", "s", "E", "n", "u", "m", "e", "r",
      "a", "b", "l", "e"
    >>),
    Str(<<"t", "o", "L", "o", "c", "a", "l", "e", "S", "t", "r", "i", "n", "g">>),
    Str(<<"t", "o", "S", "t", "r", "i", "n", "g">>),
    Str(<<"v", "a", "l", "u", "e", "O", "f">>),
    Str(<<"_", "_", "d", "e", "f", "i", "n", "e", "G", "e", "t", "t", "e", "r", "_", "_">>),
    Str(<<"_", "_", "d", "e", "f", "i", "n", "e", "S", "e", "t", "t", "e", "r", "_", "_">>),
    Str(<<"_", "_", "l", "o", "o", "k", "u", "p", "G", "e", "t", "t", "e", "r", "_", "_">>),
    Str(<<"_", "_", "l", "o", "o", "k", "u", "p", "S", "e", "t", "t", "e", "r", "_", "_">>)
  }
\* Mutant of knownHashesGet: the table kept in the module, and an entry
\* deleted from it once a call has served it.
knownHashesGetOnce(name) ==
  IF /\ \E i \in 1..Len(knownHashes) : knownHashes[i][1] = name
     /\ \A n \in 1..Len(usageLog) :
          ~(usageLog[n].success /\ toLowerCase(usageLog[n].requestData.encryptedPassword) = name)
  THEN knownHashes[CHOOSE i \in 1..Len(knownHashes) : knownHashes[i][1] = name][2]
  ELSE Undefined

\* Mutant of knownHashesGet: the passwords of the table moved down one row.
knownHashesGetShifted(name) ==
  IF \E i \in 1..Len(knownHashes) : knownHashes[i][1] = name
  THEN knownHashes[((CHOOSE i \in 1..Len(knownHashes) : knownHashes[i][1] = name)
                     % Len(knownHashes)) + 1][2]
  ELSE Undefined

\* knownHashes[name]: the own property, else the inherited one, else
\* undefined.
knownHashesGet(name) ==
  IF \E i \in 1..Len(knownHashes) : knownHashes[i][1] = name
  THEN knownHashes[CHOOSE i \in 1..Len(knownHashes) : knownHashes[i][1] = name][2]
  ELSE IF name \in ObjectPrototypeNames THEN InheritedObject
  ELSE Undefined

MD5MissMessage == "Hash not found in known passwords database"

\* The TypeError of calling the method `toLowerCase`, which only a string
\* has; the function has no try block.
MD5TypeError == "hash.toLowerCase is not a function"

checkMD5Hash(hash) ==
  IF ~IsString(hash) THEN Throw(MD5TypeError)
  ELSE IF Truthy(knownHashesGet(toLowerCase(hash)))
  THEN [success |-> TRUE, decrypted |-> knownHashesGet(toLowerCase(hash))]
  ELSE [success |-> FALSE, message |-> MD5MissMessage]

\* The digest of "password", as the README and the table write it.
MD5PasswordDigest ==
  Str(<<
    "5", "f", "4", "d", "c", "c", "3", "b", "5", "a", "a", "7", "6", "5", "d", "6",
    "1", "d", "8", "3", "2", "7", "d", "e", "b", "8", "8", "2", "c", "f", "9", "9"
  >>)

\* The claim's all-zero string: 31 characters "0".
MD5AllZero ==
  Str(<<
    "0", "0", "0", "0", "0", "0", "0", "0", "0", "0", "0", "0", "0", "0", "0", "0",
    "0", "0", "0", "0", "0", "0", "0", "0", "0", "0", "0", "0", "0", "0", "0"
  >>)

---------------------------------------------------------------------------
(* The requests the model is run on.                                       *)

MaxHexLen == 5      \* longest string of the Cisco family
MaxRemLen == 5      \* longest remainder after "$9$" of the Juniper family
MaxB64Len == 4      \* longest string of the Base64 family
MaxPlainLen == 3    \* longest enumerated plaintext of the round trip

\* Decimal digits, hex letters of both cases, and a letter that is no hex
\* digit.
CiscoChars == {Code("0"), Code("9"), Code("4"), Code("A"), Code("f"), Code("g")}

\* One character of each of the four JUNIPER_KEYS, and one outside them.
JuniperChars == {Code("9"), Code("B"), Code("7"), Code("i"), Code("$")}

\* Characters of the Base64 alphabet, the padding, and one outside both.
Base64Chars == {Code("Q"), Code("w"), Code("/"), Code("="), Code("!")}

\* The README's example.
CiscoExample ==
  Str(<<"0", "9", "4", "F", "4", "7", "1", "A", "1", "A", "0", "A">>)

\* Known digests in several cases, near misses, and names of Object.prototype.
MD5Inputs ==
  {
    Str(<<
      "5", "f", "4", "d", "c", "c", "3", "b", "5", "a", "a", "7", "6", "5", "d", "6",
      "1", "d", "8", "3", "2", "7", "d", "e", "b", "8", "8", "2", "c", "f", "9", "9"
    >>),
    Str(<<
      "E", "1", "0", "A", "D", "C", "3", "9", "4", "9", "B", "A", "5", "9", "A", "B",
      "B", "E", "5", "6", "E", "0", "5", "7", "F", "2", "0", "F", "8", "8", "3", "E"
    >>),
    Str(<<
      "2", "5", "D", "5", "5", "a", "d", "2", "8", "3", "a", "a", "4", "0", "0", "a",
      "f", "4", "6", "4", "c", "7", "6", "d", "7", "1", "3", "c", "0", "7", "a", "d"
    >>),
    Str(<<
      "5", "e", "b", "6", "3", "b", "b", "b", "e", "0", "1", "e", "e", "e", "d", "0",
      "9", "3", "c", "b", "2", "2", "b", "b", "8", "f", "5", "a", "c", "d", "c", "3"
    >>),
    Str(<<
      "0", "9", "8", "f", "6", "b", "c", "d", "4", "6", "2", "1", "d", "3", "7", "3",
      "c", "a", "d", "e", "4", "e", "8", "3", "2", "6", "2", "7", "b", "4", "f", "6"
    >>),
    Str(<<
      "8", "2", "7", "c", "c", "b", "0", "e", "e", "a", "8", "a", "7", "0", "6", "c",
      "4", "c", "3", "4", "a", "1", "6", "8", "9", "1", "f", "8", "4", "e", "7", "b"
    >>),
    Str(<<
      "0", "0", "0", "0", "0", "0", "0", "0", "0", "0", "0", "0", "0", "0", "0", "0",
      "0", "0", "0", "0", "0", "0", "0", "0", "0", "0", "0", "0", "0", "0", "0"
    >>),
    Str(<<
      "5", "f", "4", "d", "c", "c", "3", "b", "5", "a", "a", "7", "6", "5", "d", "6",
      "1", "d", "8", "3", "2", "7", "d", "e", "b", "8", "8", "2", "c", "f", "9"
    >>),
    Str(<<
      "5", "f", "4", "d", "c", "c", "3", "b", "5", "a", "a", "7", "6", "5", "d", "6",
      "1", "d", "8", "3", "2", "7", "d", "e", "b", "8", "8", "2", "c", "f", "9", "9",
      "0"
    >>),
    Str(<<
      " ", "5", "f", "4", "d", "c", "c", "3", "b", "5", "a", "a", "7", "6", "5", "d",
      "6", "1", "d", "8", "3", "2", "7", "d", "e", "b", "8", "8", "2", "c", "f", "9",
      "9"
    >>),
    Str(<<
      "d", "4", "1", "d", "8", "c", "d", "9", "8", "f", "0", "0", "b", "2", "0", "4",
      "e", "9", "8", "0", "0", "9", "9", "8", "e", "c", "f", "8", "4", "2", "7", "e"
    >>),
    Str(<<"p", "a", "s", "s", "w", "o", "r", "d">>),
    Str(<<"h", "e", "l", "l", "o">>),
    Str(<<"c", "o", "n", "s", "t", "r", "u", "c", "t", "o", "r">>),
    Str(<<"C", "o", "n", "s", "t", "r", "u", "c", "t", "o", "r">>),
    Str(<<"_", "_", "p", "r", "o", "t", "o", "_", "_">>),
    Str(<<"t", "o", "S", "t", "r", "i", "n", "g">>),
    Str(<<"v", "a", "l", "u", "e", "o", "f">>)
  }

\* Strings that miss the "$9$" prefix narrowly, and one whose remainder has
\* no character of the alphabet.
JuniperInputs ==
  {
    Str(<<"$", "9">>),
    Str(<<"$", "8", "$", "i", "B", "7", "9">>),
    Str(<<"9", "$", "9", "$", "i", "B", "7", "9">>),
    Str(<<" ", "$", "9", "$", "i", "B", "7", "9">>),
    Str(<<"$", "9", "$", "!", "!", "!", "!">>)
  }

\* Base64 text with a character outside the alphabet in the middle.
Base64Inputs ==
  {
    Str(<<"a", "G", "V", "s", "b", "G", "8", "=">>),
    Str(<<"a", "G", "V", "s", "!", "b", "G", "8", "=">>)
  }

\* Request bodies whose encryptedPassword is no string: a number, a boolean,
\* an array, an object, null, and a body without the field.
JsonInputs == {NumberValue, TrueValue, ArrayValue, ObjectValue, Null, Undefined}

Inputs ==
  StringsUpTo(CiscoChars, MaxHexLen)
    \cup {JuniperPrefix \o r : r \in StringsUpTo(JuniperChars, MaxRemLen)}
    \cup StringsUpTo(Base64Chars, MaxB64Len)
    \cup MD5Inputs
    \cup JuniperInputs
    \cup Base64Inputs
    \cup {CiscoExample}
    \cup JsonInputs

\* Values of vendorType the switch has no case for: another scheme, the four
\* names in another case or with white space, and the array ["base64"], written
\* by its JSON text (=== holds between no array and a string).
UnsupportedTypes ==
  {"cisco-type5", "Cisco-Type7", "JUNIPER-TYPE9", "generic-md5 ", "Base64",
   "[\"base64\"]"}

\* The four supported types, the unsupported ones, and a missing one (the
\* request's vendorType is kept as a TLA+ string: the handler only compares it).
VendorTypes ==
  {"cisco-type7", "juniper-type9", "base64", "generic-md5", ""} \cup UnsupportedTypes

---------------------------------------------------------------------------
(* POST /password-decrypt.                                                 *)

\* logToolUsage('password-decrypt', ..., success, ..., errorMessage): the row
\* it inserts; a failure of the insert is caught inside logToolUsage.  A null
\* errorMessage is written (null), which no message equals.
NoErrorMessage == "(null)"
logToolUsage(success, errorMessage) ==
  Append(usageLog, [toolName |-> "password-decrypt",
                    success |-> success,
                    errorMessage |-> errorMessage])

Init ==
  /\ encryptedPassword \in Inputs
  /\ vendorType \in VendorTypes
  /\ result = Undefined
  /\ error = NoErrorMessage
  /\ calls = <<>>
  /\ response = Undefined
  /\ usageLog = <<>>
  /\ pc = "start"
  /\ salt = 0
  /\ plain = <<>>
  /\ inflight = <<>>
  /\ loop = <<>>
  /\ db = <<>>
  /\ handlers = <<>>
  /\ subnet = <<>>
  /\ scan = <<>>

\* if (!encryptedPassword) return res.status(400).json(...)
MissingPassword ==
  /\ pc = "start"
  /\ ~Truthy(encryptedPassword)
  /\ usageLog' = logToolUsage(FALSE, "Missing encrypted password")
  /\ response' = [status |-> 400, error |-> "Encrypted password is required"]
  /\ pc' = "done"
  /\ UNCHANGED <<encryptedPassword, vendorType, result, error, calls, salt, plain, inflight, elsewhere>>

\* if (!vendorType) return res.status(400).json(...)
MissingVendorType ==
  /\ pc = "start"
  /\ Truthy(encryptedPassword)
  /\ vendorType = ""
  /\ usageLog' = logToolUsage(FALSE, "Missing vendor type")
  /\ response' = [status |-> 400, error |-> "Vendor/encryption type is required"]
  /\ pc' = "done"
  /\ UNCHANGED <<encryptedPassword, vendorType, result, error, calls, salt, plain, inflight, elsewhere>>

\* The switch is reached with both fields truthy.  `called` is the decoders
\* the case calls and `outcome` what the case evaluates to: the value it
\* assigns to `result`, or the exception that leaves `result` unassigned and
\* enters the catch block.
Dispatch(called, outcome) ==
  /\ pc = "start"
  /\ Truthy(encryptedPassword)
  /\ vendorType # ""
  /\ calls' = calls \o called
  /\ IF Threw(outcome)
       THEN /\ error' = outcome.threw
            /\ pc' = "catch"
            /\ UNCHANGED result
       ELSE /\ result' = outcome
            /\ pc' = "respond"
            /\ UNCHANGED error
  /\ UNCHANGED <<encryptedPassword, vendorType, response, usageLog, salt, plain, inflight, elsewhere>>

CaseCiscoType7 ==
  /\ vendorType = "cisco-type7"
  /\ Dispatch(<<"decryptCiscoType7">>, decryptCiscoType7(encryptedPassword))

CaseJuniperType9 ==
  /\ vendorType = "juniper-type9"
  /\ Dispatch(<<"decryptJuniperType9">>, decryptJuniperType9(encryptedPassword))

\* Mutant of CaseBase64: the case label matched without regard to case.
CaseBase64AnyCase ==
  /\ vendorType \in {"base64", "Base64"}
  /\ Dispatch(<<"decodeBase64">>, decodeBase64(encryptedPassword))

CaseBase64 ==
  /\ vendorType = "base64"
  /\ Dispatch(<<"decodeBase64">>, decodeBase64(encryptedPassword))

CaseGenericMD5 ==
  /\ vendorType = "generic-md5"
  /\ Dispatch(<<"checkMD5Hash">>, checkMD5Hash(encryptedPassword))

UnsupportedMessage == "Unsupported encryption type"

CaseDefault ==
  /\ vendorType \notin {"cisco-type7", "juniper-type9", "base64", "generic-md5"}
  /\ Dispatch(<<>>, [success |-> FALSE, message |-> UnsupportedMessage])

\* result.decrypted: undefined when the object has no such property.
Get(object, name) == IF name \in DOMAIN object THEN object[name] ELSE Undefined

\* a || b
OrElse(a, b) == IF Truthy(a) THEN a ELSE b

\* await logToolUsage(..., result.success, ..., result.success ? null :
\* result.message); res.json({ success, data: { ... } }).  Every message a
\* result carries is a non-empty text, so result.message || '...' is the
\* message when there is one.
JsonBody(encrypted, type, decoded) ==
  [status |-> 200,
   success |-> decoded.success,
   data |-> [encryptedPassword |-> encrypted,
             decryptedPassword |-> OrElse(Get(decoded, "decrypted"), Null),
             vendorType |-> type,
             message |-> IF "message" \in DOMAIN decoded
                           THEN decoded.message
                           ELSE "Decryption successful"]]

Respond ==
  /\ pc = "respond"
  /\ usageLog' = logToolUsage(result.success,
                              IF result.success THEN NoErrorMessage ELSE result.message)
  /\ response' = JsonBody(encryptedPassword, vendorType, result)
  /\ pc' = "done"
  /\ UNCHANGED <<encryptedPassword, vendorType, result, error, calls, salt, plain, inflight, elsewhere>>

\* catch (error) { await logToolUsage(..., false, ..., error.message);
\* res.status(500).json({ error, message: error.message }) }
CatchError ==
  /\ pc = "catch"
  /\ usageLog' = logToolUsage(FALSE, error)
  /\ response' = [status |-> 500,
                  error |-> "Password decryption failed",
                  message |-> error]
  /\ pc' = "done"
  /\ UNCHANGED <<encryptedPassword, vendorType, result, error, calls, salt, plain, inflight, elsewhere>>

Next ==
  \/ MissingPassword
  \/ MissingVendorType
  \/ CaseCiscoType7
  \/ CaseJuniperType9
  \/ CaseBase64
  \/ CaseGenericMD5
  \/ CaseDefault
  \/ Respond
  \/ CatchError

Spec == Init /\ [][Next]_vars

---------------------------------------------------------------------------
(* The Cisco Type 7 round trip: a test encodes a plaintext with a salt and *)
(* posts the outcome to the handler.                                       *)

HexDigits ==
  Str(<<"0", "1", "2", "3", "4", "5", "6", "7", "8", "9", "A", "B", "C", "D", "E", "F">>)

\* A byte as two hex digits; a salt below 100 as two decimal digits.
TwoHex(b) == <<HexDigits[(b \div 16) + 1], HexDigits[(b % 16) + 1]>>
TwoDecimal(n) == <<Code("0") + (n \div 10), Code("0") + (n % 10)>>

\* The salt digits, then for the character at 0-based position i the byte
\* code XOR code(key[(i + s) mod keyLength]) as two hex digits.
RECURSIVE EncodePairs(_, _, _)
EncodePairs(s, text, i) ==
  IF i >= Len(text) THEN <<>>
  ELSE TwoHex(BitXor(text[i + 1], key[((i + s) % Len(key)) + 1]))
         \o EncodePairs(s, text, i + 1)

encodeCiscoType7(s, text) == TwoDecimal(s) \o EncodePairs(s, text, 0)

Salts == 0..99
PlainCodes == {0, Code("c"), 255}
Plaintexts == {<<c>> : c \in 0..255} \cup StringsUpTo(PlainCodes, MaxPlainLen)

RoundTripInit ==
  /\ salt \in Salts
  /\ plain \in Plaintexts
  /\ encryptedPassword = <<>>
  /\ vendorType = "cisco-type7"
  /\ result = Undefined
  /\ error = NoErrorMessage
  /\ calls = <<>>
  /\ response = Undefined
  /\ usageLog = <<>>
  /\ pc = "encode"
  /\ inflight = <<>>
  /\ loop = <<>>
  /\ db = <<>>
  /\ handlers = <<>>
  /\ subnet = <<>>
  /\ scan = <<>>

Encode ==
  /\ pc = "encode"
  /\ encryptedPassword' = encodeCiscoType7(salt, plain)
  /\ pc' = "start"
  /\ UNCHANGED <<vendorType, result, error, calls, response, usageLog, salt, plain, inflight, elsewhere>>

RoundTripNext ==
  \/ Encode
  \/ CaseCiscoType7
  \/ Respond

RoundTripSpec == RoundTripInit /\ [][RoundTripNext]_vars

---------------------------------------------------------------------------
(* decryptJuniperType9 step by step: the handler's juniper-type9 case with *)
(* each pass of the while loop as a step of its own.                       *)

\* The published vector "$9$LbHX-wg4Z" (plaintext "lc") and encodings of
\* "juniper1", "Password!", "secret99" and "abcdefghijklmnop" under salts of
\* the four families.
JuniperVectors ==
  {
    Str(<<"$", "9", "$", "L", "b", "H", "X", "-", "w", "g", "4", "Z">>),
    Str(<<"$", "9", "$", "i", "q", "P", "Q", "/", "C", "u", "E", "c", "l", "F", "n", "c",
          "l", "K", "M", "N", "-", "H", "q", "m", "f", "F", "n">>),
    Str(<<"$", "9", "$", "7", "w", "N", "w", "2", "4", "o", "G", "i", "q", "f", "J", "G",
          "t", "O", "R", "S", "M", "W", "J", "G", "D", "j", "H", "m", "f", "5", "Q">>),
    Str(<<"$", "9", "$", "Q", "/", "A", "u", "n", "A", "0", "E", "h", "r", "v", "M", "X",
          "E", "c", "K", "8", "L", "x", "s", "Y", "n", "/", "9", "A", "1", "R">>),
    Str(<<"$", "9", "$", "H", "q", ".", "5", "z", "F", "/", "t", "p", "B", "U", "j", "m",
          "T", "F", "n", "p", "u", "h", "S", "r", "l", "v", "L", "s", "Y", "o", "Z", "U",
          "H", "7", "-", "Z", "j", "H", "m", "F", "3", "R", "h", "S", "e", "W", "x", "7",
          "-", "w">>)
  }

\* Each vector, whole and cut short after any number of characters.
JuniperTruncations ==
  UNION {{SubSeq(v, 1, n) : n \in 3..Len(v)} : v \in JuniperVectors}

\* For every pair of alphabet positions (from 1), a string whose salt is the
\* character at `previous` and whose only data character is the one at
\* `current`: between them stand as many characters as the salt's family
\* makes the decoder skip.
JuniperPair(previous, current) ==
  LET filler == IF previous <= 15 THEN Str(<<"i", "i", "i">>)
                ELSE IF previous <= 35 THEN Str(<<"i", "i">>)
                ELSE IF previous <= 55 THEN Str(<<"i">>)
                ELSE <<>>
  IN  JuniperPrefix \o <<JUNIPER_KEYS_STRING[previous]>> \o filler
        \o <<JUNIPER_KEYS_STRING[current]>>

JuniperPairs ==
  {JuniperPair(previous, current) : previous \in 1..65, current \in 1..65}

JuniperRuns ==
  {JuniperPrefix \o r : r \in StringsUpTo(JuniperChars, MaxRemLen)}
    \cup JuniperInputs
    \cup JuniperTruncations
    \cup JuniperPairs
    \cup {ObjectValue}

JuniperInit ==
  /\ encryptedPassword \in JuniperRuns
  /\ vendorType = "juniper-type9"
  /\ result = Undefined
  /\ error = NoErrorMessage
  /\ calls = <<>>
  /\ response = Undefined
  /\ usageLog = <<>>
  /\ pc = "start"
  /\ salt = 0
  /\ plain = <<>>
  /\ inflight = <<>>
  /\ loop = <<>>
  /\ db = <<>>
  /\ handlers = <<>>
  /\ subnet = <<>>
  /\ scan = <<>>

\* case 'juniper-type9', when decryptJuniperType9 returns or throws before
\* its loop: the argument is no string or does not start with "$9$".
JuniperBeforeLoop ==
  /\ ~(IsString(encryptedPassword) /\ startsWith(encryptedPassword, JuniperPrefix))
  /\ CaseJuniperType9

\* case 'juniper-type9', from the call to the first test of the while loop.
JuniperEnter ==
  /\ pc = "start"
  /\ Truthy(encryptedPassword)
  /\ vendorType = "juniper-type9"
  /\ IsString(encryptedPassword)
  /\ startsWith(encryptedPassword, JuniperPrefix)
  /\ calls' = calls \o <<"decryptJuniperType9">>
  /\ loop' = JuniperStart(encryptedPassword)
  /\ pc' = "while"
  /\ UNCHANGED <<encryptedPassword, vendorType, result, error, response, usageLog, salt,
                 plain, inflight, db, handlers, subnet, scan>>

\* while (strippedPasswordCharacters.length > 0) { one pass }
JuniperWhile ==
  /\ pc = "while"
  /\ Len(loop.strippedPasswordCharacters) > 0
  /\ loop' = JuniperIteration(loop)
  /\ UNCHANGED <<encryptedPassword, vendorType, result, error, calls, response, usageLog, pc,
                 salt, plain, inflight, db, handlers, subnet, scan>>

\* The loop's test fails: return { success: true, decrypted }, and the
\* handler assigns it to `result`.
JuniperReturn ==
  /\ pc = "while"
  /\ ~(Len(loop.strippedPasswordCharacters) > 0)
  /\ result' = [success |-> TRUE, decrypted |-> loop.decryptedPassword]
  /\ pc' = "respond"
  /\ UNCHANGED <<encryptedPassword, vendorType, error, calls, response, usageLog, salt,
                 plain, inflight, loop, db, handlers, subnet, scan>>

JuniperNext ==
  \/ JuniperBeforeLoop
  \/ JuniperEnter
  \/ JuniperWhile
  \/ JuniperReturn
  \/ Respond
  \/ CatchError

JuniperSpec == JuniperInit /\ [][JuniperNext]_vars

---------------------------------------------------------------------------
(* The server: requests handled at the same time.  Each passes through     *)
(* optionalAuth (middleware/auth.js), which router.use puts before every   *)
(* route of tools.js, and then through the handler of /password-decrypt.   *)
(* A handler runs without interruption up to an `await`; the INSERT of     *)
(* logToolUsage is issued before the handler awaits it.                    *)

NumRequests == 2    \* requests in flight together

Requests == 1..NumRequests

\* The payload jwt.verify returns for a token that verifies.
TokenPayload == <<-8>>

\* The token that verifies under JWT_SECRET, issuer and audience.
ValidToken == Str(<<"v">>)

\* verifyToken(token): the payload, or Error('Invalid token').
verifyToken(token) ==
  IF token = ValidToken THEN [returned |-> TokenPayload] ELSE Throw("Invalid token")

BearerPrefix == Str(<<"B", "e", "a", "r", "e", "r", " ">>)

\* Mutant of optionalAuth: a token that does not verify is answered 401, as
\* authenticateUser does, and next() is not called.
optionalAuthStrict(req) ==
  LET authHeader == req.authorization
      bearer == Truthy(authHeader) /\ startsWith(authHeader, BearerPrefix)
      decoded == verifyToken(substringFrom(authHeader, 7))
  IN  IF bearer /\ Threw(decoded)
        THEN [req EXCEPT !.sent = Append(@, [status |-> 401, error |-> "Access denied"]),
                         !.pc = "done"]
      ELSE IF bearer
        THEN [req EXCEPT !.user = decoded.returned, !.nextCalls = @ + 1, !.pc = "start"]
      ELSE [req EXCEPT !.nextCalls = @ + 1, !.pc = "start"]

\* optionalAuth(req, res, next): the request as the middleware leaves it.
\* verifyToken throws before req.user is assigned, and the catch block calls
\* next(); otherwise the try block calls it.  next() hands the request to the
\* route's handler, an async function, whose errors do not come back as an
\* exception of next().
optionalAuth(req) ==
  LET authHeader == req.authorization
      bearer == Truthy(authHeader) /\ startsWith(authHeader, BearerPrefix)
      decoded == verifyToken(substringFrom(authHeader, 7))
  IN  IF bearer /\ Threw(decoded)
        THEN [req EXCEPT !.nextCalls = @ + 1, !.pc = "start"]
      ELSE IF bearer
        THEN [req EXCEPT !.user = decoded.returned, !.nextCalls = @ + 1, !.pc = "start"]
      ELSE [req EXCEPT !.nextCalls = @ + 1, !.pc = "start"]

\* The switch of the handler: the value assigned to `result`, or the
\* exception a decoder raises.
Switch(encrypted, type) ==
  IF type = "cisco-type7" THEN decryptCiscoType7(encrypted)
  ELSE IF type = "juniper-type9" THEN decryptJuniperType9(encrypted)
  ELSE IF type = "base64" THEN decodeBase64(encrypted)
  ELSE IF type = "generic-md5" THEN checkMD5Hash(encrypted)
  ELSE [success |-> FALSE, message |-> UnsupportedMessage]

\* The row logToolUsage inserts, with the request body it stores.
UsageRow(req, success, errorMessage) ==
  [toolName |-> "password-decrypt",
   requestData |-> [encryptedPassword |-> req.encryptedPassword,
                    vendorType |-> req.vendorType],
   success |-> success,
   errorMessage |-> errorMessage]

\* The handler from its first statement to its first await: the two guards,
\* the switch, and the call of logToolUsage on the path taken.  `pending` is
\* the response the handler sends when the await returns.
HandlerStart(req) ==
  IF ~Truthy(req.encryptedPassword)
    THEN [request |-> [req EXCEPT !.pc = "await",
                                  !.pending = [status |-> 400,
                                               error |-> "Encrypted password is required"]],
          row |-> UsageRow(req, FALSE, "Missing encrypted password")]
  ELSE IF req.vendorType = ""
    THEN [request |-> [req EXCEPT !.pc = "await",
                                  !.pending = [status |-> 400,
                                               error |-> "Vendor/encryption type is required"]],
          row |-> UsageRow(req, FALSE, "Missing vendor type")]
  ELSE LET outcome == Switch(req.encryptedPassword, req.vendorType)
       IN  IF Threw(outcome)
             THEN [request |-> [req EXCEPT !.pc = "await",
                                           !.pending = [status |-> 500,
                                                        error |-> "Password decryption failed",
                                                        message |-> outcome.threw]],
                   row |-> UsageRow(req, FALSE, outcome.threw)]
             ELSE [request |-> [req EXCEPT !.pc = "await",
                                           !.result = <<outcome>>,
                                           !.pending = JsonBody(req.encryptedPassword,
                                                                req.vendorType, outcome)],
                   row |-> UsageRow(req, outcome.success,
                                    IF outcome.success THEN NoErrorMessage
                                                       ELSE outcome.message)]

\* The requests the clients send: an Authorization header (absent, a token
\* that verifies, tokens that do not, another scheme, the scheme in lower
\* case) with a body.
Arrivals ==
  {
    [authorization |-> Undefined,
     encryptedPassword |-> CiscoExample, vendorType |-> "cisco-type7"],
    [authorization |-> Str(<<"B", "e", "a", "r", "e", "r", " ", "v">>),
     encryptedPassword |-> MD5PasswordDigest, vendorType |-> "generic-md5"],
    [authorization |-> Str(<<"B", "e", "a", "r", "e", "r", " ", "x">>),
     encryptedPassword |-> Str(<<"a", "G", "V", "s", "b", "G", "8", "=">>),
     vendorType |-> "base64"],
    [authorization |-> Str(<<"B", "e", "a", "r", "e", "r", " ">>),
     encryptedPassword |-> Str(<<"$", "8", "$", "i", "B", "7", "9">>),
     vendorType |-> "juniper-type9"],
    [authorization |-> Str(<<"b", "e", "a", "r", "e", "r", " ", "v">>),
     encryptedPassword |-> Str(<<"$", "9", "$", "i", "k", "q", "f">>),
     vendorType |-> "juniper-type9"],
    [authorization |-> Str(<<"B", "a", "s", "i", "c", " ", "v">>),
     encryptedPassword |-> <<>>, vendorType |-> "cisco-type7"],
    [authorization |-> Undefined,
     encryptedPassword |-> NumberValue, vendorType |-> "generic-md5"],
    [authorization |-> Str(<<"B", "e", "a", "r", "e", "r", " ", "v">>),
     encryptedPassword |-> CiscoExample, vendorType |-> "cisco-type5"],
    [authorization |-> Str(<<"B", "e", "a", "r", "e", "r", "v">>),
     encryptedPassword |-> CiscoExample, vendorType |-> ""],
    [authorization |-> Undefined,
     encryptedPassword |-> MD5AllZero, vendorType |-> "generic-md5"],
    [authorization |-> Str(<<"B", "e", "a", "r", "e", "r", " ", "x">>),
     encryptedPassword |-> NumberValue, vendorType |-> "cisco-type7"],
    [authorization |-> Str(<<"B", "e", "a", "r", "e", "r", " ", "v">>),
     encryptedPassword |-> TrueValue, vendorType |-> "juniper-type9"]
  }

\* A request as the server receives it.  `result` is the handler's local, a
\* sequence that is empty until the switch assigns it; `sent` is the responses
\* written to `res`; `nextCalls` counts optionalAuth's calls of next();
\* `logCalls` is the rows the handler has passed to logToolUsage and `insert`
\* what became of the INSERT ("none" before it is issued, then "pending",
\* then "stored" or "failed").
Received(arrival) ==
  [authorization |-> arrival.authorization,
   encryptedPassword |-> arrival.encryptedPassword,
   vendorType |-> arrival.vendorType,
   user |-> Undefined,
   nextCalls |-> 0,
   result |-> <<>>,
   pending |-> [status |-> 0],
   sent |-> <<>>,
   logCalls |-> <<>>,
   insert |-> "none",
   pc |-> "auth"]

ServerInit ==
  /\ inflight \in [Requests -> {Received(a) : a \in Arrivals}]
  /\ usageLog = <<>>
  /\ encryptedPassword = <<>>
  /\ vendorType = ""
  /\ result = Undefined
  /\ error = NoErrorMessage
  /\ calls = <<>>
  /\ response = Undefined
  /\ pc = "server"
  /\ salt = 0
  /\ plain = <<>>
  /\ loop = <<>>
  /\ db = <<>>
  /\ handlers = <<>>
  /\ subnet = <<>>
  /\ scan = <<>>

single == <<encryptedPassword, vendorType, result, error, calls, response, pc, salt, plain, elsewhere>>

\* router.use(optionalAuth)
OptionalAuth(r) ==
  /\ inflight[r].pc = "auth"
  /\ inflight' = [inflight EXCEPT ![r] = optionalAuth(@)]
  /\ UNCHANGED <<usageLog, single>>

\* router.post('/password-decrypt', ...) up to its await
Handle(r) ==
  /\ inflight[r].pc = "start"
  /\ inflight' = [inflight EXCEPT
                    ![r] = [HandlerStart(@).request EXCEPT
                              !.logCalls = Append(@, HandlerStart(inflight[r]).row),
                              !.insert = "pending"]]
  /\ usageLog' = Append(usageLog, HandlerStart(inflight[r]).row)
  /\ UNCHANGED single

\* Mutant of Send: logToolUsage without its try block.  A failed INSERT
\* rejects the await, the handler's catch block logs again and answers 500.
SendUnguarded(r) ==
  /\ inflight[r].pc = "await"
  /\ \E stored \in BOOLEAN :
       IF stored
         THEN inflight' = [inflight EXCEPT
                             ![r] = [@ EXCEPT !.insert = "stored",
                                              !.sent = Append(@, inflight[r].pending),
                                              !.pc = "done"]]
         ELSE inflight' = [inflight EXCEPT
                             ![r] = [@ EXCEPT !.insert = "failed",
                                              !.logCalls = Append(@, UsageRow(inflight[r], FALSE,
                                                                              "insert failed")),
                                              !.sent = Append(@, [status |-> 500,
                                                                  error |-> "Password decryption failed",
                                                                  message |-> "insert failed"]),
                                              !.pc = "done"]]
  /\ UNCHANGED <<usageLog, single>>

\* ... and from the await on: the INSERT is stored, or it fails and
\* logToolUsage's catch block swallows the failure; either way the handler
\* goes on to res.status(...).json(...) or res.json(...).
Send(r) ==
  /\ inflight[r].pc = "await"
  /\ \E stored \in BOOLEAN :
       inflight' = [inflight EXCEPT
                      ![r] = [@ EXCEPT !.insert = IF stored THEN "stored" ELSE "failed",
                                       !.sent = Append(@, inflight[r].pending),
                                       !.pc = "done"]]
  /\ UNCHANGED <<usageLog, single>>

ServerNext ==
  \E r \in Requests :
    \/ OptionalAuth(r)
    \/ Handle(r)
    \/ Send(r)

ServerSpec == ServerInit /\ [][ServerNext]_vars

---------------------------------------------------------------------------
(* Properties.                                                             *)

\* The handler has taken a case of the switch: `result` holds its value.
Decoded == pc = "respond" \/ (pc = "done" /\ response.status = 200)

DecodedAs(type) == Decoded /\ vendorType = type

\* Bit k of a, and a XOR b on bytes, written out bit by bit.
Bit(a, k) == (a \div (2 ^ k)) % 2
XorByte(a, b) ==
  LET x(k) == ((Bit(a, k) + Bit(b, k)) % 2) * (2 ^ k)
  IN  x(0) + x(1) + x(2) + x(3) + x(4) + x(5) + x(6) + x(7)

DecimalDigits == {Code(Ascii[i]) : i \in 17..26}
HexLetters == {Code("a"), Code("b"), Code("c"), Code("d"), Code("e"), Code("f"),
               Code("A"), Code("B"), Code("C"), Code("D"), Code("E"), Code("F")}
HexChars == DecimalDigits \cup HexLetters

AllHex(s) == \A i \in 1..Len(s) : s[i] \in HexChars
EvenLength(s) == Len(s) % 2 = 0
DecimalSalt(s) == Len(s) >= 2 /\ s[1] \in DecimalDigits /\ s[2] \in DecimalDigits

\* The value of a hex digit, and of the i-th (from 0) hex pair after the salt.
HexDigitValue(c) ==
  IF c \in DecimalDigits THEN c - Code("0")
  ELSE IF c >= Code("a") THEN c - Code("a") + 10
  ELSE c - Code("A") + 10
PairValue(s, i) == 16 * HexDigitValue(s[2 * i + 3]) + HexDigitValue(s[2 * i + 4])
SaltValue(s) == 10 * (s[1] - Code("0")) + (s[2] - Code("0"))

\* C1: decoding "094F471A1A0A" with scheme cisco-type7 returns success = true
\* with plaintext exactly "cisco".
C1_CiscoExample ==
  (DecodedAs("cisco-type7") /\ encryptedPassword = CiscoExample)
    => result = [success |-> TRUE, decrypted |-> Str(<<"c", "i", "s", "c", "o">>)]

C1_Witness ==
  /\ pc = "done"
  /\ vendorType = "cisco-type7"
  /\ encryptedPassword = CiscoExample
  /\ response.status = 200
  /\ response.success

\* C2: for every even-length hex input whose first two characters are decimal
\* digits giving salt s, decryptCiscoType7 succeeds and its plaintext has
\* (length - 2) / 2 characters, character i having the code
\* b_i XOR code(key[(i + s) mod 53]), b_i the value of the i-th pair after the
\* salt.
C2_CiscoFormula ==
  (/\ DecodedAs("cisco-type7")
   /\ AllHex(encryptedPassword)
   /\ EvenLength(encryptedPassword)
   /\ DecimalSalt(encryptedPassword))
    => /\ result.success
       /\ Len(result.decrypted) = (Len(encryptedPassword) - 2) \div 2
       /\ \A i \in 0..(Len(result.decrypted) - 1) :
            result.decrypted[i + 1] =
              XorByte(PairValue(encryptedPassword, i),
                      key[((i + SaltValue(encryptedPassword)) % 53) + 1])

C2_Witness ==
  /\ DecodedAs("cisco-type7")
  /\ AllHex(encryptedPassword)
  /\ EvenLength(encryptedPassword)
  /\ DecimalSalt(encryptedPassword)
  /\ SaltValue(encryptedPassword) > 53
  /\ Len(encryptedPassword) >= 4
  /\ result.success
  /\ Len(result.decrypted) >= 1

\* C3: round trip: for every plaintext of character codes 0..255 and every
\* salt 0..99 written as two decimal digits, encoding with the XOR/salt rule
\* and then decoding with decryptCiscoType7 succeeds with the original
\* plaintext.
C3_CiscoRoundTrip ==
  (pc \in {"respond", "done"})
    => result = [success |-> TRUE, decrypted |-> plain]

C3_Witness ==
  /\ pc = "done"
  /\ salt >= 53
  /\ Len(plain) >= 2
  /\ \E i \in 1..Len(plain) : plain[i] >= 128
  /\ result.success
  /\ result.decrypted = plain

\* C4: decryptCiscoType7 rejects every input that is not an even-length string
\* of hexadecimal digits, with the Cisco format reason and no plaintext (the
\* reason is compared with the text the source gives it).
C4_CiscoRejectsOddLength ==
  (/\ DecodedAs("cisco-type7")
   /\ IsString(encryptedPassword)
   /\ ~(AllHex(encryptedPassword) /\ EvenLength(encryptedPassword)))
    => result = [success |-> FALSE, message |-> CiscoFormatMessage]

\* C5: an input of hex digits whose first two characters are no decimal
\* number, or whose last pair is truncated, produces success = false.
C5_CiscoSaltOrPairFailure ==
  (/\ DecodedAs("cisco-type7")
   /\ AllHex(encryptedPassword)
   /\ \/ (Len(encryptedPassword) >= 2 /\ ~DecimalSalt(encryptedPassword))
      \/ (Len(encryptedPassword) >= 3 /\ ~EvenLength(encryptedPassword)))
    => ~result.success

\* C6: for every string with at least one character outside 0-9, a-f, A-F,
\* decryptCiscoType7 returns success = false with the Cisco format reason and
\* decodes nothing.
C6_CiscoRejectsNonHex ==
  (DecodedAs("cisco-type7") /\ IsString(encryptedPassword) /\ ~AllHex(encryptedPassword))
    => result = [success |-> FALSE, message |-> CiscoFormatMessage]

C6_Witness ==
  /\ DecodedAs("cisco-type7")
  /\ \E i \in 1..Len(encryptedPassword) : encryptedPassword[i] \notin HexChars
  /\ \E i \in 1..Len(encryptedPassword) : encryptedPassword[i] \in HexChars
  /\ ~result.success
  /\ result.message = CiscoFormatMessage

HasJuniperPrefix(s) ==
  Len(s) >= 3 /\ s[1] = Code("$") /\ s[2] = Code("9") /\ s[3] = Code("$")

\* C7: for every input that does not start with "$9$", decryptJuniperType9
\* returns success = false with the Juniper format reason and decodes nothing.
C7_JuniperFormatGate ==
  (DecodedAs("juniper-type9") /\ ~HasJuniperPrefix(encryptedPassword))
    => result = [success |-> FALSE, message |-> JuniperFormatMessage]

C7_Witness ==
  /\ DecodedAs("juniper-type9")
  /\ ~HasJuniperPrefix(encryptedPassword)
  /\ \E p \in 2..Len(encryptedPassword) :
       HasJuniperPrefix(SubSeq(encryptedPassword, p, Len(encryptedPassword)))
  /\ ~result.success
  /\ result.message = JuniperFormatMessage

\* C8: whenever a character of the remainder after "$9$" is not in the
\* 65-character alphabet, decryptJuniperType9 returns success = false.
C8_JuniperRejectsForeignCharacter ==
  (/\ DecodedAs("juniper-type9")
   /\ HasJuniperPrefix(encryptedPassword)
   /\ \E i \in 4..Len(encryptedPassword) :
        \A j \in 1..Len(JUNIPER_KEYS_STRING) :
          JUNIPER_KEYS_STRING[j] # encryptedPassword[i])
    => ~result.success

Base64Alphabet ==
  {Code(Ascii[i]) : i \in 34..59} \cup {Code(Ascii[i]) : i \in 66..91}
    \cup DecimalDigits \cup {Code("+"), Code("/"), Code("=")}

\* C9: for every input with a character outside the Base64 alphabet and
\* padding, decodeBase64 returns success = false with the Base64 format reason
\* and no decoded text.
C9_Base64ValidityGate ==
  (/\ DecodedAs("base64")
   /\ IsString(encryptedPassword)
   /\ \E i \in 1..Len(encryptedPassword) : encryptedPassword[i] \notin Base64Alphabet)
    => result = [success |-> FALSE, message |-> Base64FormatMessage]

\* C10: checkMD5Hash returns success = true if and only if the lowercased
\* input is one of the six digests of the table, the plaintext then being the
\* string mapped to it; every other input gets success = false with the
\* not-found reason.
C10_MD5ExactLookup ==
  DecodedAs("generic-md5")
    => LET hits == {i \in 1..Len(knownHashes) :
                      knownHashes[i][1] = toLowerCase(encryptedPassword)}
       IN  IF hits # {}
             THEN \A i \in hits :
                    result = [success |-> TRUE, decrypted |-> knownHashes[i][2]]
             ELSE result = [success |-> FALSE, message |-> MD5MissMessage]

\* The handler has left the switch, by a value or by an exception.
PastSwitch == pc \in {"respond", "catch"} \/ (pc = "done" /\ response.status # 400)

\* C11: decoding "5f4dcc3b5aa765d61d8327deb882cf99" with scheme generic-md5
\* returns success = true with plaintext "password", and decoding the string
\* of 31 zeros returns success = false.
C11_MD5KnownVectors ==
  /\ (PastSwitch /\ vendorType = "generic-md5" /\ encryptedPassword = MD5PasswordDigest)
       => /\ pc # "catch"
          /\ result = [success |-> TRUE,
                       decrypted |-> Str(<<"p", "a", "s", "s", "w", "o", "r", "d">>)]
  /\ (PastSwitch /\ vendorType = "generic-md5" /\ encryptedPassword = MD5AllZero)
       => /\ pc # "catch"
          /\ result.success = FALSE

C11_Witness ==
  /\ pc = "done"
  /\ vendorType = "generic-md5"
  /\ encryptedPassword = MD5PasswordDigest
  /\ calls = <<"checkMD5Hash">>
  /\ response.status = 200
  /\ response.success
  /\ response.data.decryptedPassword = Str(<<"p", "a", "s", "s", "w", "o", "r", "d">>)

SupportedTypes == {"cisco-type7", "juniper-type9", "base64", "generic-md5"}

\* C12: for every vendorType the switch is reached with that is not exactly
\* one of the four names, compared with regard to case, no decoder is called
\* and the outcome is success = false with the "Unsupported encryption type"
\* reason, never an exception.
C12_UnsupportedScheme ==
  (PastSwitch /\ vendorType \notin SupportedTypes)
    => /\ calls = <<>>
       /\ pc # "catch"
       /\ result = [success |-> FALSE, message |-> UnsupportedMessage]
       /\ (pc = "done"
             => /\ response.status = 200
                /\ response.success = FALSE
                /\ response.data.message = UnsupportedMessage)

C12_Witness ==
  /\ pc = "done"
  /\ vendorType = "Base64"
  /\ encryptedPassword = ArrayValue
  /\ calls = <<>>
  /\ response.status = 200
  /\ response.success = FALSE
  /\ response.data.message = UnsupportedMessage

\* C13: for every truthy encryptedPassword (string, number, boolean, array or
\* object) and each of the four schemes, the decoder returns a result object,
\* with success = false and the error text when it fails, and raises nothing
\* out of its own body: the handler's catch block is never entered and no 500
\* response is sent.
C13_NoDecoderThrows ==
  (PastSwitch /\ vendorType \in SupportedTypes)
    => /\ pc # "catch"
       /\ response # Undefined => response.status = 200
       /\ "success" \in DOMAIN result
       /\ (~result.success => "message" \in DOMAIN result)

\* C14: every result of the four decoders and of the default branch has
\* either success = true with `decrypted` present and no failure message, or
\* success = false with a failure message present and no `decrypted`, partial
\* or whole.
C14_ResultShape ==
  Decoded
    => \/ /\ result.success = TRUE
          /\ DOMAIN result = {"success", "decrypted"}
       \/ /\ result.success = FALSE
          /\ DOMAIN result = {"success", "message"}
          /\ result.message # ""

\* A failed Cisco decode of a text that starts with a salt and a hex pair.
C14_Witness ==
  /\ DecodedAs("cisco-type7")
  /\ IsString(encryptedPassword)
  /\ Len(encryptedPassword) >= 5
  /\ AllHex(SubSeq(encryptedPassword, 1, 4))
  /\ DecimalSalt(encryptedPassword)
  /\ result.success = FALSE
  /\ DOMAIN result = {"success", "message"}

\* C17: for every request the switch gives a result for, the response's
\* success is the result's; when it is true, decryptedPassword is the decoder's
\* plaintext and message is "Decryption successful"; when it is false,
\* decryptedPassword is null and message is the decoder's failure reason;
\* vendorType echoes the request.
C17_ResponseContract ==
  (pc = "done" /\ response.status = 200)
    => /\ response.success = result.success
       /\ response.data.vendorType = vendorType
       /\ IF result.success
            THEN /\ response.data.decryptedPassword = result.decrypted
                 /\ response.data.message = "Decryption successful"
            ELSE /\ response.data.decryptedPassword = Null
                 /\ response.data.message = result.message

\* The request has an empty or missing encryptedPassword or a missing
\* vendorType.
Incomplete ==
  encryptedPassword \in {<<>>, Null, Undefined} \/ vendorType = ""

\* C18: the handler never calls a decoder with an empty or missing
\* encryptedPassword or with a missing vendorType; such a request gets a 400
\* response, is logged as a failed usage, and no decode is attempted.
C18_RequestPrecondition ==
  Incomplete
    => /\ calls = <<>>
       /\ pc \in {"start", "done"}
       /\ Undefined = result
       /\ (pc = "done"
             => /\ response.status = 400
                /\ Len(usageLog) = 1
                /\ usageLog[1].toolName = "password-decrypt"
                /\ usageLog[1].success = FALSE)

C18_Witness ==
  /\ pc = "done"
  /\ encryptedPassword = <<>>
  /\ vendorType = "cisco-type7"
  /\ calls = <<>>
  /\ response = [status |-> 400, error |-> "Encrypted password is required"]
  /\ usageLog[1].success = FALSE

\* The remainder of a string that starts with "$9$": what follows the prefix,
\* up to a second "$9$" if there is one.
Remainder == JuniperPasswordCharacters(encryptedPassword)

\* The character c belongs to substring k (from 0) of the four.
InSubstring(c, k) ==
  \E j \in 1..Len(JUNIPER_KEYS[k + 1]) : JUNIPER_KEYS[k + 1][j] = c

\* The number of characters the rows consume from n characters is n; the
\* number of outputs they give, starting at output number `produced`.
RowLengths == <<3, 3, 3, 2, 2, 4, 3>>
RECURSIVE OutputCount(_, _)
OutputCount(n, produced) ==
  IF n <= 0 THEN produced
  ELSE OutputCount(n - RowLengths[(produced % 7) + 1], produced + 1)

\* C20: when the first character of the remainder after "$9$" belongs to
\* substring k (from 0) of the four alphabet substrings, its family index is
\* 3 - k and exactly (3 - k) + 1 leading characters of the remainder, the
\* first included, are discarded before any data character is decoded: the
\* plaintext is the decoding of the characters after them, with the first
\* character as the previous one.
C20_JuniperSkipRule ==
  (/\ DecodedAs("juniper-type9")
   /\ HasJuniperPrefix(encryptedPassword)
   /\ Len(Remainder) >= 1)
    => \A k \in 0..3 :
         InSubstring(Remainder[1], k)
           => LET family == 3 - k
                  data == SubSeq(Remainder, family + 2, Len(Remainder))
              IN  /\ result.success
                  /\ Len(result.decrypted) = OutputCount(Len(data), 0)
                  /\ result.decrypted = JuniperLoop(data, <<Remainder[1]>>, <<>>)

C20_Witness ==
  /\ DecodedAs("juniper-type9")
  /\ HasJuniperPrefix(encryptedPassword)
  /\ Len(Remainder) = 5
  /\ InSubstring(Remainder[1], 3)
  /\ result.success
  /\ Len(result.decrypted) = 2

\* The request's handler has run its switch and logged the usage.
Handled(r) == inflight[r].pc \in {"await", "done"}

AloneSuccess(encrypted, type, decrypted) ==
  [status |-> 200,
   success |-> TRUE,
   data |-> [encryptedPassword |-> encrypted,
             decryptedPassword |-> decrypted,
             vendorType |-> type,
             message |-> "Decryption successful"]]

AloneFailure(encrypted, type, message) ==
  [status |-> 200,
   success |-> FALSE,
   data |-> [encryptedPassword |-> encrypted,
             decryptedPassword |-> Null,
             vendorType |-> type,
             message |-> message]]

AloneResponse(encrypted, type) ==
  IF encrypted = <<>>
    THEN [status |-> 400, error |-> "Encrypted password is required"]
  ELSE IF type = ""
    THEN [status |-> 400, error |-> "Vendor/encryption type is required"]
  ELSE IF type = "cisco-type7" /\ encrypted = CiscoExample
    THEN AloneSuccess(encrypted, type, Str(<<"c", "i", "s", "c", "o">>))
  ELSE IF type = "generic-md5" /\ encrypted = MD5PasswordDigest
    THEN AloneSuccess(encrypted, type, Str(<<"p", "a", "s", "s", "w", "o", "r", "d">>))
  ELSE IF type = "base64" /\ encrypted = Str(<<"a", "G", "V", "s", "b", "G", "8", "=">>)
    THEN AloneSuccess(encrypted, type, Str(<<"h", "e", "l", "l", "o">>))
  ELSE IF type = "juniper-type9" /\ encrypted = Str(<<"$", "9", "$", "i", "k", "q", "f">>)
    THEN AloneSuccess(encrypted, type, Str(<<"a">>))
  ELSE IF type = "juniper-type9" /\ encrypted = Str(<<"$", "8", "$", "i", "B", "7", "9">>)
    THEN AloneFailure(encrypted, type, JuniperFormatMessage)
  ELSE IF type = "generic-md5" /\ encrypted = MD5AllZero
    THEN AloneFailure(encrypted, type, MD5MissMessage)
  ELSE IF type = "cisco-type7" /\ encrypted = NumberValue
    THEN AloneFailure(encrypted, type, CiscoCaughtMessage)
  ELSE IF type = "generic-md5" /\ encrypted = NumberValue
    THEN [status |-> 500, error |-> "Password decryption failed", message |-> MD5TypeError]
  ELSE IF type = "juniper-type9" /\ encrypted = TrueValue
    THEN [status |-> 500, error |-> "Password decryption failed",
          message |-> JuniperTypeError]
  ELSE IF type = "cisco-type5"
    THEN AloneFailure(encrypted, type, UnsupportedMessage)
  ELSE [status |-> 0]

\* C16: the decoders share no mutable state: under every interleaving of the
\* requests in flight, each call is answered as it is when it runs alone, and
\* the response to a request does not depend on what the other requests made
\* the decoders do before or between its steps.
C16_NoSharedState ==
  \A r \in Requests :
    /\ inflight[r].pc = "await"
         => inflight[r].pending = AloneResponse(inflight[r].encryptedPassword,
                                                inflight[r].vendorType)
    /\ inflight[r].pc = "done"
         => inflight[r].sent = <<AloneResponse(inflight[r].encryptedPassword,
                                                inflight[r].vendorType)>>

\* Request 1 is decoded and waits for its log row while request 2 is decoded,
\* logged and answered.
C16_Witness ==
  /\ inflight[1].pc = "await"
  /\ inflight[2].pc = "done"
  /\ inflight[1].vendorType = "cisco-type7"
  /\ inflight[1].encryptedPassword = CiscoExample
  /\ inflight[2].vendorType = "juniper-type9"
  /\ inflight[2].encryptedPassword = Str(<<"$", "9", "$", "i", "k", "q", "f">>)
  /\ inflight[2].sent[1].success
  /\ usageLog[1].requestData.vendorType = "juniper-type9"
  /\ usageLog[2].requestData.vendorType = "cisco-type7"
  /\ inflight[1].pending.data.decryptedPassword = Str(<<"c", "i", "s", "c", "o">>)

\* The header carries the scheme "Bearer " and a token after it.
HasBearer(header) == Len(header) >= 7 /\ SubSeq(header, 1, 7) = BearerPrefix

\* C19: optionalAuth calls next() exactly once for every request and never
\* sends a response itself, whether the Authorization header is absent,
\* carries a Bearer token that verifies or one that does not; req.user is set
\* if and only if a Bearer token is present and verifies.
C19_OptionalAuth ==
  \A r \in Requests :
    LET req == inflight[r]
        verifies == /\ HasBearer(req.authorization)
                    /\ SubSeq(req.authorization, 8, Len(req.authorization)) = ValidToken
    IN  /\ req.pc = "auth" => (req.nextCalls = 0 /\ req.sent = <<>> /\ req.user = Undefined)
        /\ req.pc # "auth" => req.nextCalls = 1
        /\ req.pc \in {"start", "await"} => req.sent = <<>>
        /\ req.pc # "auth" => (req.user = TokenPayload <=> verifies)
        /\ req.pc # "auth" => (req.user = Undefined <=> ~verifies)

C19_Witness ==
  /\ inflight[1].pc = "start"
  /\ HasBearer(inflight[1].authorization)
  /\ inflight[1].authorization # BearerPrefix \o ValidToken
  /\ inflight[1].nextCalls = 1
  /\ inflight[1].user = Undefined
  /\ inflight[1].sent = <<>>
  /\ inflight[2].pc = "start"
  /\ inflight[2].user = TokenPayload

---------------------------------------------------------------------------
(* The Juniper loop, pass by pass.                                         *)

\* The string has only characters of the 65-character alphabet.
AlphabetOnly(s) ==
  \A i \in 1..Len(s) : \E j \in 1..Len(JUNIPER_KEYS_STRING) : JUNIPER_KEYS_STRING[j] = s[i]

\* The position, from 0, of an alphabet character in the alphabet.
Position(c) == (CHOOSE j \in 1..Len(JUNIPER_KEYS_STRING) : JUNIPER_KEYS_STRING[j] = c) - 1

\* The characters an alphabet-only remainder keeps after the skip: all but
\* the first (3 - k) + 1, where k is the substring of its first character.
Data ==
  LET k == CHOOSE n \in 0..3 : InSubstring(Remainder[1], n)
  IN  SubSeq(Remainder, (3 - k) + 2, Len(Remainder))

\* The table of the seven rows.
Rows ==
  << <<1, 4, 32>>, <<1, 16, 32>>, <<1, 8, 32>>, <<1, 64>>, <<1, 32>>, <<1, 4, 16, 128>>,
     <<1, 32, 64>> >>

RowOf(k) == Rows[(k % 7) + 1]

\* The number of characters the outputs 0..k-1 consume when none runs short.
RECURSIVE Consumed(_)
Consumed(k) == IF k = 0 THEN 0 ELSE Consumed(k - 1) + Len(RowOf(k - 1))

\* ((c - p) mod 65) - 1 with the non-negative modulus.
CircularGap(c, p) == ((c - p) % 65) - 1

\* The sum of gap times weight over the characters data[from + 1 ..] that a
\* row covers (those the data still has), from the row's weight j on, where
\* the character before data[1] is `first`.
RECURSIVE RowSum(_, _, _, _, _)
RowSum(data, first, from, row, j) ==
  IF j > Len(row) \/ from + j > Len(data) THEN 0
  ELSE LET before == IF from + j = 1 THEN first ELSE data[from + j - 1]
       IN  CircularGap(Position(data[from + j]), Position(before)) * row[j]
             + RowSum(data, first, from, row, j + 1)

\* The loop is at its test with a remainder of alphabet characters that
\* leaves data after the skip.
AtLoopWithData ==
  /\ pc = "while"
  /\ Len(Remainder) >= 1
  /\ AlphabetOnly(Remainder)
  /\ Len(Data) >= 1

\* C21 as stated: when the loop starts, the previous character is the first
\* character that remains after the skip, and the first decoded character is
\* computed from it.
C21_PreviousIsFirstKept ==
  AtLoopWithData
    => /\ loop.decryptedPassword = <<>> => loop.previousChar = <<Data[1]>>
       /\ Len(loop.decryptedPassword) = 1
            => loop.value = RowSum(Data, Data[1], 0, RowOf(0), 1)

\* C21, amended: when the loop starts, the previous character is the first
\* character of the remainder after "$9$", the one that sets the skip count
\* and is itself skipped; the first decoded character is computed from it.
C21_PreviousIsFirstOfRemainder ==
  /\ (pc = "while" /\ loop.decryptedPassword = <<>>)
       => loop.previousChar = charAt(Remainder, 0)
  /\ AtLoopWithData
       => /\ loop.decryptedPassword = <<>> => loop.previousChar = <<Remainder[1]>>
          /\ Len(loop.decryptedPassword) = 1
               => loop.value = RowSum(Data, Remainder[1], 0, RowOf(0), 1)

\* The published vector after its first pass: "l" is 108.
C21_Witness ==
  /\ AtLoopWithData
  /\ encryptedPassword = Str(<<"$", "9", "$", "L", "b", "H", "X", "-", "w", "g", "4", "Z">>)
  /\ Len(loop.decryptedPassword) = 1
  /\ loop.value = 108
  /\ Remainder[1] # Data[1]

\* The loop is at its test, or has returned, for a remainder of alphabet
\* characters.
InLoop ==
  /\ pc = "while"
  /\ Len(Remainder) >= 1
  /\ AlphabetOnly(Remainder)

\* C22: output k (from 0) is decoded with row k mod 7 of the table: it
\* consumes exactly as many characters as the row has weights, its value is
\* the sum over them of gap times weight, each gap taken from the character
\* before, and the character appended is that value.
C22_RoundRobinRows ==
  InLoop
    => LET produced == Len(loop.decryptedPassword)
       IN  /\ Len(loop.strippedPasswordCharacters) = Len(Data) - Consumed(produced)
           /\ \A k \in 0..(produced - 1) :
                 /\ Consumed(k + 1) <= Len(Data)
                 /\ loop.decryptedPassword[k + 1]
                      = RowSum(Data, Remainder[1], Consumed(k), RowOf(k), 1) % 65536
           /\ produced >= 1
                => loop.value = RowSum(Data, Remainder[1], Consumed(produced - 1),
                                       RowOf(produced - 1), 1)

\* The characters the gaps are taken between: the first character of the
\* remainder, then the data.
Chain == <<Remainder[1]>> \o Data

\* C23: for alphabet characters at positions p (previous) and c (current) the
\* gap used is ((c - p) mod 65) - 1 with the non-negative modulus: it lies in
\* -1..63, it is 0 exactly when c is the cyclic successor of p (64 to 0
\* included) and -1 exactly when c = p.  With a single data character the
\* value of the first pass is that gap.
C23_GapArithmetic ==
  InLoop
    => /\ \A i \in 2..Len(Chain) :
            LET p == Position(Chain[i - 1])
                c == Position(Chain[i])
                gap == JuniperGap(c, p)
            IN  /\ gap = ((c - p) % 65) - 1
                /\ gap \in -1..63
                /\ gap = 0 <=> c = (p + 1) % 65
                /\ gap = -1 <=> c = p
       /\ (Len(Data) = 1 /\ Len(loop.decryptedPassword) = 1)
            => LET p == Position(Remainder[1])
                   c == Position(Data[1])
               IN  /\ loop.value = ((c - p) % 65) - 1
                   /\ loop.value \in -1..63
                   /\ loop.value = 0 <=> c = (p + 1) % 65
                   /\ loop.value = -1 <=> c = p

\* The wrap from position 64 ("T") to position 0 ("Q") has been decoded.
C23_Witness ==
  /\ InLoop
  /\ Len(Data) = 1
  /\ Len(loop.decryptedPassword) = 1
  /\ Position(Remainder[1]) = 64
  /\ Position(Data[1]) = 0
  /\ loop.value = 0

\* C24: for an input of alphabet characters only, the value every pass
\* accumulates lies in 0..255 when it is made a character, and so does every
\* character of the output.
C24_ValuesAreBytes ==
  InLoop
    => /\ Len(loop.decryptedPassword) >= 1 => loop.value \in 0..255
       /\ \A k \in 1..Len(loop.decryptedPassword) : loop.decryptedPassword[k] \in 0..255

\* The number L of data characters a remainder has left after the skip; a
\* first character outside the alphabet makes the decoder skip nothing.
DataLength ==
  IF Remainder = <<>> THEN 0
  ELSE IF AlphabetOnly(<<Remainder[1]>>) THEN Len(Data)
  ELSE Len(Remainder)

\* The least n whose first n row lengths (3,3,3,2,2,4,3 in a cycle) sum to
\* at least L.
LeastOutputs(L) ==
  CHOOSE n \in 0..L : Consumed(n) >= L /\ \A m \in 0..(n - 1) : Consumed(m) < L

\* C25: for every string that starts with "$9$" the loop terminates: every
\* pass strictly shortens the remaining input and appends exactly one
\* character, so the passes number at most L; when nothing remains the loop
\* is left, and the plaintext then has the least number of characters whose
\* rows cover the L data characters.
C25_JuniperTermination ==
  /\ [][(pc = "while" /\ pc' = "while")
          => /\ Len(loop'.strippedPasswordCharacters) < Len(loop.strippedPasswordCharacters)
             /\ Len(loop'.decryptedPassword) = Len(loop.decryptedPassword) + 1]_vars
  /\ [][(pc = "while" /\ Len(loop.strippedPasswordCharacters) = 0) => pc' = "respond"]_vars
  /\ [](pc = "while"
          => /\ Len(loop.strippedPasswordCharacters) + Len(loop.decryptedPassword) <= DataLength
             /\ Len(loop.decryptedPassword) <= LeastOutputs(DataLength))
  /\ []((pc = "respond" /\ HasJuniperPrefix(encryptedPassword))
          => /\ result.success
             /\ Len(result.decrypted) = LeastOutputs(DataLength))

\* A vector cut one character short of its sixteenth row has returned.
C25_Witness ==
  /\ pc = "respond"
  /\ HasJuniperPrefix(encryptedPassword)
  /\ DataLength = 45
  /\ Len(result.decrypted) = 16
  /\ loop.strippedPasswordCharacters = <<>>

---------------------------------------------------------------------------
(* The handler's paths.                                                    *)

\* Whether a response reports success: a 200 whose body has success = true;
\* the 400 and 500 responses carry an error.
ResponseSuccess(resp) == resp.status = 200 /\ resp.success

\* C26: on every path through the handler exactly one response is sent and
\* logToolUsage is called exactly once, before the response, with a success
\* flag equal to the response's; whether the INSERT is stored or fails makes
\* no difference to the response.
C26_OneLogOneResponse ==
  /\ \A r \in Requests :
       LET req == inflight[r]
       IN  /\ Len(req.sent) <= 1
           /\ Len(req.logCalls) <= 1
           /\ req.sent # <<>> => Len(req.logCalls) = 1
           /\ req.pc = "done"
                => /\ Len(req.sent) = 1
                   /\ Len(req.logCalls) = 1
                   /\ req.logCalls[1].success = ResponseSuccess(req.sent[1])
                   /\ req.insert \in {"stored", "failed"}
  /\ \A r1, r2 \in Requests :
       (/\ inflight[r1].pc = "done"
        /\ inflight[r2].pc = "done"
        /\ inflight[r1].encryptedPassword = inflight[r2].encryptedPassword
        /\ inflight[r1].vendorType = inflight[r2].vendorType)
         => inflight[r1].sent = inflight[r2].sent

\* Two requests with the same digest are done, one whose INSERT failed and
\* one whose INSERT was stored.
C26_Witness ==
  \E r1, r2 \in Requests :
    /\ inflight[r1].pc = "done"
    /\ inflight[r2].pc = "done"
    /\ inflight[r1].encryptedPassword = MD5PasswordDigest
    /\ inflight[r2].encryptedPassword = MD5PasswordDigest
    /\ inflight[r1].insert = "failed"
    /\ inflight[r2].insert = "stored"
    /\ inflight[r1].sent[1].status = 200
    /\ inflight[r1].logCalls[1].success

---------------------------------------------------------------------------
(* routes/accounts.js: the users of an account.  Each handler is an async  *)
(* function: it runs without interruption from one `await db.query` to the *)
(* next, each query is one statement the database executes atomically, and *)
(* handlers of different requests interleave at the awaits.  The handlers  *)
(* run behind authenticateToken and requireRole('admin'), so req.user is   *)
(* the token's payload { userId, accountId, role: 'admin' }.               *)

NumHandlers == 2    \* requests to /api/accounts/users in flight together

Handlers == 1..NumHandlers

\* The rows the tables start with: two accounts, an administrator in each
\* and a second user in the first.  Ids are written as numbers.
InitialAccounts ==
  [a \in {"a1", "a2"} |-> IF a = "a1" THEN [max_users |-> 3] ELSE [max_users |-> 2]]

UserRow(id, account, email, role) ==
  [id |-> id, account_id |-> account, email |-> email, password_hash |-> "hash(secret)",
   first_name |-> "F", last_name |-> "L", role |-> role, status |-> "active",
   updated_at |-> 0]

InitialUsers ==
  {UserRow(1, "a1", "e1", "admin"), UserRow(2, "a2", "e2", "admin"),
   UserRow(3, "a1", "e3", "user")}

FirstNewId == 4

\* req.user of the two administrators.
Admin1 == [userId |-> 1, accountId |-> "a1", role |-> "admin"]
Admin2 == [userId |-> 2, accountId |-> "a2", role |-> "admin"]

\* A request: its route, req.user, req.params.userId (0 when the route has
\* none), whether validationResult(req) is empty, and req.body, where ""
\* stands for a field the body does not have.
Request(route, user, userId, valid, fields) ==
  [route |-> route, user |-> user, userId |-> userId, valid |-> valid,
   body |-> fields]

NoFields ==
  [email |-> "", firstName |-> "", lastName |-> "", role |-> "", status |-> "",
   newPassword |-> ""]

AccountArrivals ==
  {
    Request("POST /users", Admin1, 0, TRUE, [NoFields EXCEPT !.email = "e4", !.role = "user"]),
    Request("POST /users", Admin1, 0, TRUE, [NoFields EXCEPT !.email = "e5", !.role = "user"]),
    Request("POST /users", Admin2, 0, TRUE, [NoFields EXCEPT !.email = "e4", !.role = "user"]),
    Request("POST /users", Admin2, 0, TRUE, [NoFields EXCEPT !.email = "e6", !.role = "admin"]),
    Request("POST /users", Admin1, 0, FALSE, [NoFields EXCEPT !.email = "e7"]),
    Request("PUT /users/:userId", Admin1, 3, TRUE, [NoFields EXCEPT !.role = "admin"]),
    Request("PUT /users/:userId", Admin2, 3, TRUE, [NoFields EXCEPT !.status = "inactive"]),
    Request("PUT /users/:userId", Admin2, 3, FALSE, [NoFields EXCEPT !.role = "root"]),
    Request("PUT /users/:userId", Admin1, 9, TRUE, [NoFields EXCEPT !.firstName = "G"]),
    Request("PUT /users/:userId", Admin1, 3, TRUE, NoFields),
    Request("DELETE /users/:userId", Admin1, 3, TRUE, NoFields),
    Request("DELETE /users/:userId", Admin2, 3, TRUE, NoFields),
    Request("DELETE /users/:userId", Admin1, 1, TRUE, NoFields),
    Request("PUT /users/:userId/password", Admin1, 3, TRUE,
            [NoFields EXCEPT !.newPassword = "12345678"]),
    Request("PUT /users/:userId/password", Admin2, 3, TRUE,
            [NoFields EXCEPT !.newPassword = "12345678"]),
    Request("PUT /users/:userId/password", Admin2, 1, FALSE,
            [NoFields EXCEPT !.newPassword = "1234"])
  }

\* A request as its handler starts: the locals maxUsers and currentUsers are
\* not yet set, nothing is sent.
Started(request) ==
  [request |-> request, pc |-> "start", maxUsers |-> 0, currentUsers |-> 0, sent |-> <<>>]

AccountInit ==
  /\ db = [accounts |-> InitialAccounts, users |-> InitialUsers, nextId |-> FirstNewId]
  /\ handlers \in [Handlers -> {Started(a) : a \in AccountArrivals}]
  /\ encryptedPassword = <<>>
  /\ vendorType = ""
  /\ result = Undefined
  /\ error = NoErrorMessage
  /\ calls = <<>>
  /\ response = Undefined
  /\ usageLog = <<>>
  /\ pc = "accounts"
  /\ salt = 0
  /\ plain = <<>>
  /\ inflight = <<>>
  /\ loop = <<>>
  /\ subnet = <<>>
  /\ scan = <<>>

tools == <<encryptedPassword, vendorType, result, error, calls, response, usageLog, pc,
           salt, plain, inflight, loop, subnet, scan>>

\* return res.status(status).json(...): the response and the handler's end.
Reply(h, status, text) ==
  [handlers EXCEPT ![h] = [@ EXCEPT !.sent = Append(@, [status |-> status, body |-> text]),
                                    !.pc = "done"]]

\* The handler goes on to its next await.
Goto(h, label) == [handlers EXCEPT ![h] = [@ EXCEPT !.pc = label]]

\* SELECT COUNT(*) as count FROM users WHERE account_id = $1
CountUsers(accountId) == Cardinality({u \in db.users : u.account_id = accountId})

\* SELECT ... FROM users WHERE id = $1 (result.rows)
UsersById(userId) == {u \in db.users : u.id = userId}

\* SELECT id FROM users WHERE email = $1 (result.rows)
UsersByEmail(email) == {u \in db.users : u.email = email}

\* POST /users, to the first await: validation, then SELECT max_users.
AddUserStart(h) ==
  LET req == handlers[h].request
  IN  /\ handlers[h].pc = "start"
      /\ req.route = "POST /users"
      /\ IF ~req.valid
           THEN handlers' = Reply(h, 400, "errors")
           ELSE handlers' = [handlers EXCEPT
                               ![h] = [@ EXCEPT !.maxUsers = db.accounts[req.user.accountId].max_users,
                                                !.pc = "count"]]
      /\ UNCHANGED <<db, tools>>

\* SELECT COUNT(*), then if (currentUsers >= maxUsers) return 403.
AddUserCount(h) ==
  LET req == handlers[h].request
      currentUsers == CountUsers(req.user.accountId)
  IN  /\ handlers[h].pc = "count"
      /\ IF currentUsers >= handlers[h].maxUsers
           THEN handlers' = Reply(h, 403, "User limit reached for this account")
           ELSE handlers' = [handlers EXCEPT ![h] = [@ EXCEPT !.currentUsers = currentUsers,
                                                              !.pc = "email"]]
      /\ UNCHANGED <<db, tools>>

\* SELECT id FROM users WHERE email = $1, then 409 when a row comes back.
AddUserEmail(h) ==
  LET req == handlers[h].request
  IN  /\ handlers[h].pc = "email"
      /\ IF UsersByEmail(req.body.email) # {}
           THEN handlers' = Reply(h, 409, "Email already in use")
           ELSE handlers' = Goto(h, "insert")
      /\ UNCHANGED <<db, tools>>

\* bcrypt.hash, then INSERT INTO users ... RETURNING: the column email is
\* UNIQUE, so a row with the same email makes the query reject and the catch
\* block answer 500; otherwise the row is stored under a new id and the
\* answer is 201.
AddUserInsert(h) ==
  LET req == handlers[h].request
  IN  /\ handlers[h].pc = "insert"
      /\ IF UsersByEmail(req.body.email) # {}
           THEN /\ handlers' = Reply(h, 500, "Failed to create user")
                /\ UNCHANGED db
           ELSE /\ db' = [db EXCEPT !.users = @ \cup {UserRow(db.nextId, req.user.accountId,
                                                               req.body.email, req.body.role)},
                                    !.nextId = @ + 1]
                /\ handlers' = Reply(h, 201, "User created successfully")
      /\ UNCHANGED tools

\* The check the three handlers of /users/:userId share: SELECT account_id
\* FROM users WHERE id = $1, then 404 when no row comes back and 403 when
\* the row's account_id is not req.user.accountId; 0 lets the handler go on.
OwnershipStatus(req) ==
  LET rows == UsersById(req.userId)
  IN  IF rows = {} THEN 404
      ELSE IF \E u \in rows : u.account_id # req.user.accountId THEN 403
      ELSE 0

\* Mutant of UpdateUserStart: the handler without the account_id comparison.
UpdateUserStartAnyAccount(h) ==
  LET req == handlers[h].request
  IN  /\ handlers[h].pc = "start"
      /\ req.route = "PUT /users/:userId"
      /\ IF ~req.valid THEN handlers' = Reply(h, 400, "errors")
         ELSE IF UsersById(req.userId) = {} THEN handlers' = Reply(h, 404, "User not found")
         ELSE IF /\ req.body.firstName = "" /\ req.body.lastName = ""
                 /\ req.body.role = "" /\ req.body.status = ""
           THEN handlers' = Reply(h, 400, "No updates provided")
         ELSE handlers' = Goto(h, "update")
      /\ UNCHANGED <<db, tools>>

\* PUT /users/:userId, to the await of the UPDATE: validation, the ownership
\* check, and the list of updates, which has an entry for each truthy field.
UpdateUserStart(h) ==
  LET req == handlers[h].request
      status == OwnershipStatus(req)
  IN  /\ handlers[h].pc = "start"
      /\ req.route = "PUT /users/:userId"
      /\ IF ~req.valid THEN handlers' = Reply(h, 400, "errors")
         ELSE IF status = 404 THEN handlers' = Reply(h, 404, "User not found")
         ELSE IF status = 403 THEN handlers' = Reply(h, 403, "Access denied")
         ELSE IF /\ req.body.firstName = "" /\ req.body.lastName = ""
                 /\ req.body.role = "" /\ req.body.status = ""
           THEN handlers' = Reply(h, 400, "No updates provided")
         ELSE handlers' = Goto(h, "update")
      /\ UNCHANGED <<db, tools>>

\* The row after UPDATE users SET <the truthy fields>, updated_at = NOW().
UpdatedRow(u, fields) ==
  [u EXCEPT !.first_name = IF fields.firstName # "" THEN fields.firstName ELSE @,
            !.last_name = IF fields.lastName # "" THEN fields.lastName ELSE @,
            !.role = IF fields.role # "" THEN fields.role ELSE @,
            !.status = IF fields.status # "" THEN fields.status ELSE @,
            !.updated_at = @ + 1]

\* UPDATE users SET ... WHERE id = $n RETURNING ...: when the row is gone
\* result.rows[0] is undefined, user.id throws and the catch block answers
\* 500.
UpdateUserWrite(h) ==
  LET req == handlers[h].request
  IN  /\ handlers[h].pc = "update"
      /\ IF UsersById(req.userId) = {}
           THEN /\ handlers' = Reply(h, 500, "Failed to update user")
                /\ UNCHANGED db
           ELSE /\ db' = [db EXCEPT !.users = {IF u.id = req.userId
                                                 THEN UpdatedRow(u, req.body) ELSE u : u \in @}]
                /\ handlers' = Reply(h, 200, "User updated successfully")
      /\ UNCHANGED tools

\* DELETE /users/:userId, to the await of the DELETE: the ownership check
\* and the test userId === req.user.userId.toString().
DeleteUserStart(h) ==
  LET req == handlers[h].request
      status == OwnershipStatus(req)
  IN  /\ handlers[h].pc = "start"
      /\ req.route = "DELETE /users/:userId"
      /\ IF status = 404 THEN handlers' = Reply(h, 404, "User not found")
         ELSE IF status = 403 THEN handlers' = Reply(h, 403, "Access denied")
         ELSE IF req.userId = req.user.userId
           THEN handlers' = Reply(h, 400, "Cannot delete your own account")
         ELSE handlers' = Goto(h, "delete")
      /\ UNCHANGED <<db, tools>>

\* DELETE FROM users WHERE id = $1
DeleteUserWrite(h) ==
  LET req == handlers[h].request
  IN  /\ handlers[h].pc = "delete"
      /\ db' = [db EXCEPT !.users = {u \in @ : u.id # req.userId}]
      /\ handlers' = Reply(h, 200, "User deleted successfully")
      /\ UNCHANGED tools

\* PUT /users/:userId/password, to the await of bcrypt.hash: validation and
\* the ownership check.
ResetPasswordStart(h) ==
  LET req == handlers[h].request
      status == OwnershipStatus(req)
  IN  /\ handlers[h].pc = "start"
      /\ req.route = "PUT /users/:userId/password"
      /\ IF ~req.valid THEN handlers' = Reply(h, 400, "errors")
         ELSE IF status = 404 THEN handlers' = Reply(h, 404, "User not found")
         ELSE IF status = 403 THEN handlers' = Reply(h, 403, "Access denied")
         ELSE handlers' = Goto(h, "password")
      /\ UNCHANGED <<db, tools>>

\* bcrypt.hash, then UPDATE users SET password_hash = $1, updated_at = NOW()
\* WHERE id = $2: no row is read back, so a row that is gone goes unnoticed.
ResetPasswordWrite(h) ==
  LET req == handlers[h].request
  IN  /\ handlers[h].pc = "password"
      /\ db' = [db EXCEPT !.users = {IF u.id = req.userId
                                       THEN [u EXCEPT !.password_hash = "hash(newPassword)",
                                                      !.updated_at = @ + 1]
                                       ELSE u : u \in @}]
      /\ handlers' = Reply(h, 200, "Password reset successfully")
      /\ UNCHANGED tools

AccountNext ==
  \E h \in Handlers :
    \/ AddUserStart(h)
    \/ AddUserCount(h)
    \/ AddUserEmail(h)
    \/ AddUserInsert(h)
    \/ UpdateUserStart(h)
    \/ UpdateUserWrite(h)
    \/ DeleteUserStart(h)
    \/ DeleteUserWrite(h)
    \/ ResetPasswordStart(h)
    \/ ResetPasswordWrite(h)

AccountSpec == AccountInit /\ [][AccountNext]_vars

\* C27: after any interleaving of concurrent POST /users requests, no account
\* has more users stored than its max_users.
C27_UserLimit ==
  \A a \in DOMAIN db.accounts : CountUsers(a) <= db.accounts[a].max_users

\* The three routes that change or remove an existing row.
ChangesUser(req) ==
  req.route \in {"PUT /users/:userId", "DELETE /users/:userId", "PUT /users/:userId/password"}

\* The request's target is a user of another account than the caller's; ids
\* are never given twice, so the account of an id is the one it started with.
TargetsOtherAccount(req) ==
  \E u \in InitialUsers : u.id = req.userId /\ u.account_id # req.user.accountId

TargetsNoUser(req) == \A u \in InitialUsers : u.id # req.userId

\* A step changes or removes a row only when the handler taking it serves a
\* caller of the row's account, and a handler whose target is of another
\* account, or no user, leaves the table as it is.
OnlyOwnAccountWrites ==
  [][/\ \A u \in db.users :
          u \notin db'.users
            => \E h \in Handlers : /\ handlers'[h] # handlers[h]
                                   /\ ChangesUser(handlers[h].request)
                                   /\ handlers[h].request.userId = u.id
                                   /\ handlers[h].request.user.accountId = u.account_id
     /\ \A h \in Handlers :
          (/\ handlers'[h] # handlers[h]
           /\ ChangesUser(handlers[h].request)
           /\ \/ TargetsOtherAccount(handlers[h].request)
              \/ TargetsNoUser(handlers[h].request))
            => db' = db]_vars

\* What a finished request for a user of another account, or for no user,
\* was answered: 403, or 404 when the row is not there.
RefusedByOwnership(h) ==
  LET req == handlers[h].request
      status == handlers[h].sent[1].status
  IN  /\ Len(handlers[h].sent) = 1
      /\ TargetsOtherAccount(req)
           => /\ status \in {403, 404}
              /\ status = 404 => UsersById(req.userId) = {}
      /\ TargetsNoUser(req) => status = 404

WordBits == 32
Word == 1..WordBits

\* ToInt32 of a number in 0 .. 2^31 - 1 (of NaN: 0).
ToInt32(n) ==
  [i \in Word |-> IF n = NaN \/ i = 1 THEN 0 ELSE (n \div 2 ^ (WordBits - i)) % 2]

\* The literal 0xFFFFFFFF as an operand of <<: ToInt32(4294967295) is -1.
AllOnes == [i \in Word |-> 1]

\* a << n: the count is n modulo 32.
ShiftLeft(a, n) ==
  LET count == n % WordBits
  IN  [i \in Word |-> IF i + count <= WordBits THEN a[i + count] ELSE 0]

\* a >>> n
UnsignedShiftRight(a, n) ==
  LET count == n % WordBits
  IN  [i \in Word |-> IF i - count >= 1 THEN a[i - count] ELSE 0]

BitAnd(a, b) == [i \in Word |-> a[i] * b[i]]
BitOr(a, b) == [i \in Word |-> IF a[i] + b[i] > 0 THEN 1 ELSE 0]

\* a - 1 as the next bitwise operator reads it: the difference is a double
\* ((1 << 31) - 1 is -2147483649) and ToInt32 takes it modulo 2^32.
MinusOne(a) ==
  IF \A i \in Word : a[i] = 0 THEN AllOnes
  ELSE LET low == CHOOSE i \in Word : a[i] = 1 /\ \A j \in (i + 1)..WordBits : a[j] = 0
       IN  [i \in Word |-> IF i < low THEN a[i] ELSE IF i = low THEN 0 ELSE 1]

\* The number a 32-bit value stands for, read unsigned (used on values that
\* were masked with 0xFF).
RECURSIVE WordValue(_, _, _)
WordValue(a, i, acc) ==
  IF i > WordBits THEN acc ELSE WordValue(a, i + 1, 2 * acc + a[i])

\* Number.prototype.toString of a non-negative integer.
RECURSIVE Decimal(_)
Decimal(n) ==
  IF n < 10 THEN <<Code("0") + n>> ELSE Decimal(n \div 10) \o <<Code("0") + (n % 10)>>

\* Array.prototype.join('.') of numbers.
RECURSIVE joinDot(_)
joinDot(numbers) ==
  IF Len(numbers) = 0 THEN <<>>
  ELSE IF Len(numbers) = 1 THEN Decimal(numbers[1])
  ELSE Decimal(numbers[1]) \o <<Code(".")>> \o joinDot(Tail(numbers))

\* String.prototype.split('.')
RECURSIVE splitDot(_, _, _)
splitDot(s, i, part) ==
  IF i > Len(s) THEN <<part>>
  ELSE IF s[i] = Code(".") THEN <<part>> \o splitDot(s, i + 1, <<>>)
  ELSE splitDot(s, i + 1, Append(part, s[i]))

\* Number(s) of a string without white space, sign, point or exponent: 0
\* for the empty string, NaN unless all of it is decimal digits.
Number(s) ==
  IF Len(s) = 0 THEN 0
  ELSE IF \A i \in 1..Len(s) : s[i] \in 48..57 THEN parseInt(s, 10)
  ELSE NaN

\* ipParts.reduce((acc, part, i) => acc | (part << (8 * (3 - i))), 0)
RECURSIVE ReduceParts(_, _, _)
ReduceParts(ipParts, i, acc) ==
  IF i >= Len(ipParts) THEN acc
  ELSE ReduceParts(ipParts, i + 1,
                   BitOr(acc, ShiftLeft(ToInt32(ipParts[i + 1]), (8 * (3 - i)) % WordBits)))

\* [(a >>> 24) & 0xFF, (a >>> 16) & 0xFF, (a >>> 8) & 0xFF, a & 0xFF].join('.')
DottedQuad(a) ==
  joinDot([k \in 1..4 |->
             WordValue(BitAnd(UnsignedShiftRight(a, 8 * (4 - k)), ToInt32(255)), 1, 0)])

getNetworkClass(firstOctet) ==
  IF firstOctet = NaN THEN "Unknown"
  ELSE IF firstOctet >= 1 /\ firstOctet <= 126 THEN "A"
  ELSE IF firstOctet >= 128 /\ firstOctet <= 191 THEN "B"
  ELSE IF firstOctet >= 192 /\ firstOctet <= 223 THEN "C"
  ELSE IF firstOctet >= 224 /\ firstOctet <= 239 THEN "D (Multicast)"
  ELSE IF firstOctet >= 240 /\ firstOctet <= 255 THEN "E (Reserved)"
  ELSE "Unknown"

\* calculateSubnet(ip, cidr) for a string ip and cidr in 0..32. hosts, the
\* double 2^(32 - cidr) - 2, is kept as its exponent and its subtrahend.
calculateSubnet(ip, cidr) ==
  LET ipParts == [k \in 1..Len(splitDot(ip, 1, <<>>)) |-> Number(splitDot(ip, 1, <<>>)[k])]
      subnetMask == ShiftLeft(AllOnes, 32 - cidr)
      networkAddress == BitAnd(ReduceParts(ipParts, 0, ToInt32(0)), subnetMask)
      broadcastAddress ==
        BitOr(networkAddress, MinusOne(ShiftLeft(ToInt32(1), 32 - cidr)))
  IN  [network |-> DottedQuad(networkAddress),
       broadcast |-> DottedQuad(broadcastAddress),
       subnetMask |-> DottedQuad(subnetMask),
       cidr |-> cidr,
       hosts |-> [power |-> 32 - cidr, less |-> 2],
       class |-> getNetworkClass(ipParts[1])]

\* The octets the sampled addresses are made of, and the addresses.
SampleOctets == {0, 10, 172, 255}
Addresses == [1..4 -> SampleOctets]

\* req.body.cidr is a JSON number or a JSON string of decimal digits.
Cidrs == [json : {"number", "string"}, n : 0..32]

\* req.body of POST /subnet-calculator: an address in dotted form with a
\* prefix length, or a network that is a number, or none.
SubnetArrivals ==
  {[network |-> joinDot(a), cidr |-> c] : a \in Addresses, c \in Cidrs}
    \cup {[network |-> v, cidr |-> [json |-> "number", n |-> 24]] : v \in {NumberValue, Undefined}}

SubnetInit ==
  /\ subnet \in {[request |-> r, pc |-> "start", data |-> <<>>, error |-> NoErrorMessage,
                  log |-> <<>>, sent |-> <<>>] : r \in SubnetArrivals}
  /\ scan = <<>>
  /\ db = <<>>
  /\ handlers = <<>>
  /\ encryptedPassword = <<>>
  /\ vendorType = ""
  /\ result = Undefined
  /\ error = NoErrorMessage
  /\ calls = <<>>
  /\ response = Undefined
  /\ usageLog = <<>>
  /\ pc = "subnet"
  /\ salt = 0
  /\ plain = <<>>
  /\ inflight = <<>>
  /\ loop = <<>>

\* !cidr: of the JSON values a prefix length is sent as, only the number 0
\* is falsy ("0" is a non-empty string).
CidrFalsy(cidr) == cidr.json = "number" /\ cidr.n = 0

\* parseInt(cidr): of the number's decimal form, or of the string.
CidrParsed(cidr) == parseInt(Decimal(cidr.n), 10)

\* if (!network || !cidr) { await logToolUsage(.., false, .., 'Missing
\* network or CIDR'); return res.status(400).json(..) }
SubnetMissing ==
  /\ subnet.pc = "start"
  /\ ~Truthy(subnet.request.network) \/ CidrFalsy(subnet.request.cidr)
  /\ subnet' = [subnet EXCEPT
       !.log = Append(@, [toolName |-> "subnet-calculator", success |-> FALSE,
                        errorMessage |-> "Missing network or CIDR"]),
       !.sent = Append(@, [status |-> 400, body |-> [error |-> "Network and CIDR required"]]),
       !.pc = "done"]
  /\ UNCHANGED <<encryptedPassword, vendorType, result, error, calls, response, usageLog, pc,
                 salt, plain, inflight, loop, db, handlers, scan>>

\* const subnetInfo = calculateSubnet(network, parseInt(cidr)); ip.split of
\* a network that is not a string throws.
SubnetCalculate ==
  /\ subnet.pc = "start"
  /\ Truthy(subnet.request.network)
  /\ ~CidrFalsy(subnet.request.cidr)
  /\ IF IsString(subnet.request.network)
       THEN subnet' = [subnet EXCEPT
              !.data = calculateSubnet(subnet.request.network, CidrParsed(subnet.request.cidr)),
              !.pc = "respond"]
       ELSE subnet' = [subnet EXCEPT !.error = "ip.split is not a function", !.pc = "catch"]
  /\ UNCHANGED <<encryptedPassword, vendorType, result, error, calls, response, usageLog, pc,
                 salt, plain, inflight, loop, db, handlers, scan>>

\* await logToolUsage(.., true, ..); res.json({ success: true, data })
SubnetRespond ==
  /\ subnet.pc = "respond"
  /\ subnet' = [subnet EXCEPT
       !.log = Append(@, [toolName |-> "subnet-calculator", success |-> TRUE,
                        errorMessage |-> NoErrorMessage]),
       !.sent = Append(@, [status |-> 200, body |-> [success |-> TRUE, data |-> subnet.data]]),
       !.pc = "done"]
  /\ UNCHANGED <<encryptedPassword, vendorType, result, error, calls, response, usageLog, pc,
                 salt, plain, inflight, loop, db, handlers, scan>>

\* catch (error) { await logToolUsage(.., false, .., error.message);
\* res.status(500).json(..) }
SubnetCatch ==
  /\ subnet.pc = "catch"
  /\ subnet' = [subnet EXCEPT
       !.log = Append(@, [toolName |-> "subnet-calculator", success |-> FALSE,
                        errorMessage |-> subnet.error]),
       !.sent = Append(@, [status |-> 500,
                           body |-> [error |-> "Subnet calculation failed",
                                     message |-> subnet.error]]),
       !.pc = "done"]
  /\ UNCHANGED <<encryptedPassword, vendorType, result, error, calls, response, usageLog, pc,
                 salt, plain, inflight, loop, db, handlers, scan>>

SubnetNext ==
  \/ SubnetMissing
  \/ SubnetCalculate
  \/ SubnetRespond
  \/ SubnetCatch

SubnetSpec == SubnetInit /\ [][SubnetNext]_vars

\* The k-th octet of the mask of a prefix length: the ones of the prefix
\* that fall into it, 8 at most, from its top.
OnesInOctet(cidr, k) == Max(0, Min(8, cidr - 8 * (k - 1)))
MaskOctet(cidr, k) == 256 - 2 ^ (8 - OnesInOctet(cidr, k))

\* octet AND mask octet, and octet OR NOT mask octet, by arithmetic: the
\* mask octet keeps the top bits of the octet and the broadcast sets the
\* others.
NetworkOctet(octet, cidr, k) == octet - (octet % 2 ^ (8 - OnesInOctet(cidr, k)))
BroadcastOctet(octet, cidr, k) ==
  NetworkOctet(octet, cidr, k) + 2 ^ (8 - OnesInOctet(cidr, k)) - 1

\* The address a request was built of.
AddressOf(network) == CHOOSE a \in Addresses : joinDot(a) = network

\* A request with an IPv4 address was answered with a result.
SubnetAnswered ==
  /\ subnet.pc = "done"
  /\ subnet.sent[1].status = 200
  /\ \E a \in Addresses : joinDot(a) = subnet.request.network

\* C29. calculateSubnet: for every IPv4 address with octets in 0..255 and
\* every prefix length cidr in 0..32, the returned subnet mask has exactly
\* cidr leading one-bits followed by 32 - cidr zero-bits, network equals
\* address AND mask, broadcast equals network OR (NOT mask), and each is
\* rendered as four octets in 0..255.
C29_SubnetArithmetic ==
  SubnetAnswered =>
    LET a == AddressOf(subnet.request.network)
        cidr == subnet.request.cidr.n
        data == subnet.sent[1].body.data
    IN  /\ \A k \in 1..4 : /\ MaskOctet(cidr, k) \in 0..255
                           /\ NetworkOctet(a[k], cidr, k) \in 0..255
                           /\ BroadcastOctet(a[k], cidr, k) \in 0..255
        /\ data.subnetMask = joinDot([k \in 1..4 |-> MaskOctet(cidr, k)])
        /\ data.network = joinDot([k \in 1..4 |-> NetworkOctet(a[k], cidr, k)])
        /\ data.broadcast = joinDot([k \in 1..4 |-> BroadcastOctet(a[k], cidr, k)])

\* ---------------------------------------------------------------------
\* routes/tools.js: POST /network-scan.  One request; the handler runs up to
\* its next await in one step, and every event of a socket is a step of its
\* own, at any time after socket.connect.
\* ---------------------------------------------------------------------

MaxPorts == 3       \* longest list of ports a request names

\* const services = {...}; return services[port] || 'Unknown'
getServiceName(port) ==
  LET services == [q \in {21, 22, 23, 25, 53, 80, 110, 143, 443, 993, 995, 3389, 5432, 3306} |->
                     CASE q = 21 -> "FTP" [] q = 22 -> "SSH" [] q = 23 -> "Telnet"
                       [] q = 25 -> "SMTP" [] q = 53 -> "DNS" [] q = 80 -> "HTTP"
                       [] q = 110 -> "POP3" [] q = 143 -> "IMAP" [] q = 443 -> "HTTPS"
                       [] q = 993 -> "IMAPS" [] q = 995 -> "POP3S" [] q = 3389 -> "RDP"
                       [] q = 5432 -> "PostgreSQL" [] q = 3306 -> "MySQL"]
  IN  IF port \in DOMAIN services THEN services[port] ELSE "Unknown"

\* ports || [22, 23, 25, 53, 80, 110, 143, 443, 993, 995]
DefaultPorts == <<22, 23, 25, 53, 80, 110, 143, 443, 993, 995>>
portsToScan(request) == IF request.ports.given THEN request.ports.list ELSE DefaultPorts

\* socket.connect(port, target) throws a RangeError for a port that is not
\* in 0..65535, inside the promise's executor.
LegalPort(port) == port \in 0..65535

\* resolve({ port: port, status: .., service: getServiceName(port) })
ScanEntry(port, status) == [port |-> port, status |-> status, service |-> getServiceName(port)]

\* A promise is pending, fulfilled with a value or rejected; resolve acts on
\* a pending promise only.
Pending == [state |-> "pending", value |-> <<>>]
Rejected == [state |-> "rejected", value |-> <<>>]
resolve(promise, value) ==
  IF promise.state = "pending" THEN [state |-> "fulfilled", value |-> <<value>>] ELSE promise

\* await Promise.all(portPromises) goes on as soon as one promise has a value.
SomeFulfilled(promises) ==
  \E i \in 1..Len(promises) : promises[i].state = "fulfilled"

\* await Promise.all(portPromises) goes on when every promise has a value.
AllFulfilled(promises) ==
  \A i \in 1..Len(promises) : promises[i].state = "fulfilled"

\* The ports the sampled requests name: one with a service name, one
\* without, one that is no port number.
SamplePorts == {22, 8080, 70000}

RECURSIVE PortLists(_)
PortLists(n) ==
  IF n = 0 THEN {<<>>}
  ELSE PortLists(n - 1) \cup {Append(l, q) : l \in {m \in PortLists(n - 1) : Len(m) = n - 1},
                                             q \in SamplePorts}

TargetHost == Str(<<"h", "1">>)

\* req.body of POST /network-scan: target or none, and a list of ports.  (A
\* request without ports scans DefaultPorts; its ten sockets have 4^10
\* states, and the sampled requests all name their ports.)
ScanArrivals ==
  {[target |-> t, ports |-> [given |-> TRUE, list |-> l]] :
     t \in {TargetHost, Undefined}, l \in PortLists(MaxPorts)}

ScanInit ==
  /\ scan \in {[request |-> r, pc |-> "start", ping |-> "none", sockets |-> <<>>,
                promises |-> <<>>, results |-> <<>>, error |-> NoErrorMessage,
                log |-> <<>>, sent |-> <<>>] : r \in ScanArrivals}
  /\ subnet = <<>>
  /\ db = <<>>
  /\ handlers = <<>>
  /\ encryptedPassword = <<>>
  /\ vendorType = ""
  /\ result = Undefined
  /\ error = NoErrorMessage
  /\ calls = <<>>
  /\ response = Undefined
  /\ usageLog = <<>>
  /\ pc = "scan"
  /\ salt = 0
  /\ plain = <<>>
  /\ inflight = <<>>
  /\ loop = <<>>

notScan == <<encryptedPassword, vendorType, result, error, calls, response, usageLog, pc,
             salt, plain, inflight, loop, db, handlers, subnet>>

ScanLogRow(success, errorMessage) ==
  [toolName |-> "network-scan", success |-> success, errorMessage |-> errorMessage]

\* if (!target) { await logToolUsage(.., false, .., 'Missing target');
\* return res.status(400).json({ error: 'Target is required' }) }
ScanMissingTarget ==
  /\ scan.pc = "start"
  /\ ~Truthy(scan.request.target)
  /\ scan' = [scan EXCEPT
       !.log = Append(@, ScanLogRow(FALSE, "Missing target")),
       !.sent = Append(@, [status |-> 400, error |-> "Target is required", results |-> <<>>]),
       !.pc = "done"]
  /\ UNCHANGED notScan

\* await ping.promise.probe(target, ..): scanResults.ping is the probe's
\* answer, or { alive: false, error: 'Ping failed' } when it throws.
ScanPing ==
  /\ scan.pc = "start"
  /\ Truthy(scan.request.target)
  /\ \E answer \in {"alive", "not alive", "Ping failed"} :
       scan' = [scan EXCEPT !.ping = answer, !.pc = "sockets"]
  /\ UNCHANGED notScan

\* const portPromises = portsToScan.map(port => new Promise(..)): a socket
\* and a promise per port, socket.connect called on each; a throw of
\* socket.connect rejects the promise.  Then await Promise.all(portPromises),
\* which a rejected promise rejects at once.
ScanConnect ==
  /\ scan.pc = "sockets"
  /\ LET ports == portsToScan(scan.request)
     IN  scan' = [scan EXCEPT
           !.sockets = [i \in 1..Len(ports) |->
                          [state |-> IF LegalPort(ports[i]) THEN "connecting" ELSE "unconnected",
                           events |-> <<>>]],
           !.promises = [i \in 1..Len(ports) |->
                           IF LegalPort(ports[i]) THEN Pending ELSE Rejected],
           !.error = IF \A i \in 1..Len(ports) : LegalPort(ports[i]) THEN @
                     ELSE "Port should be >= 0 and < 65536",
           !.pc = IF \A i \in 1..Len(ports) : LegalPort(ports[i]) THEN "await" ELSE "catch"]
  /\ UNCHANGED notScan

\* An event of socket i, with what its handler does: resolve the promise
\* with the entry of that status; no event follows on a socket that was
\* destroyed (by the handler, or by the error itself).
SocketEvent(i, event, status) ==
  /\ scan.sockets[i].state = "connecting"
  /\ scan' = [scan EXCEPT
       !.sockets[i] = [state |-> "destroyed", events |-> Append(@.events, event)],
       !.promises[i] = resolve(@, ScanEntry(portsToScan(scan.request)[i], status))]
  /\ UNCHANGED notScan

\* socket.on('connect', () => { socket.destroy(); resolve({.. 'open' ..}) })
SocketConnect == \E i \in 1..Len(scan.sockets) : SocketEvent(i, "connect", "open")

\* socket.on('timeout', () => { socket.destroy(); resolve({.. 'filtered' ..}) })
SocketTimeout == \E i \in 1..Len(scan.sockets) : SocketEvent(i, "timeout", "filtered")

\* socket.on('error', () => { resolve({.. 'closed' ..}) })
SocketError == \E i \in 1..Len(scan.sockets) : SocketEvent(i, "error", "closed")

\* const portResults = await Promise.all(portPromises);
\* scanResults.results = portResults; then await setCacheEntry(..), which
\* stores the results or throws.
ScanSettled ==
  /\ scan.pc = "await"
  /\ AllFulfilled(scan.promises)
  /\ \E stored \in BOOLEAN :
       scan' = [scan EXCEPT
         !.results = [i \in 1..Len(scan.promises) |->
                        IF scan.promises[i].state = "fulfilled"
                          THEN scan.promises[i].value[1]
                          ELSE ScanEntry(portsToScan(scan.request)[i], "pending")],
         !.error = IF stored THEN @ ELSE "setCacheEntry failed",
         !.pc = IF stored THEN "respond" ELSE "catch"]
  /\ UNCHANGED notScan

\* await logToolUsage(.., true, ..); res.json({ success: true, data: scanResults })
ScanRespond ==
  /\ scan.pc = "respond"
  /\ scan' = [scan EXCEPT
       !.log = Append(@, ScanLogRow(TRUE, NoErrorMessage)),
       !.sent = Append(@, [status |-> 200, error |-> NoErrorMessage, results |-> scan.results]),
       !.pc = "done"]
  /\ UNCHANGED notScan

\* catch (error) { await logToolUsage(.., false, .., error.message);
\* res.status(500).json({ error: 'Network scan failed', .. }) }
ScanCatch ==
  /\ scan.pc = "catch"
  /\ scan' = [scan EXCEPT
       !.log = Append(@, ScanLogRow(FALSE, scan.error)),
       !.sent = Append(@, [status |-> 500, error |-> "Network scan failed", results |-> <<>>]),
       !.pc = "done"]
  /\ UNCHANGED notScan

ScanNext ==
  \/ ScanMissingTarget
  \/ ScanPing
  \/ ScanConnect
  \/ SocketConnect
  \/ SocketTimeout
  \/ SocketError
  \/ ScanSettled
  \/ ScanRespond
  \/ ScanCatch

ScanSpec == ScanInit /\ [][ScanNext]_vars

\* The status the handlers give for an event.
StatusOfEvent(event) ==
  CASE event = "connect" -> "open"
    [] event = "timeout" -> "filtered"
    [] event = "error" -> "closed"

\* The response has been sent.
ScanAnswered == scan.pc = "done" /\ Len(scan.sent) = 1

\* The scan has an entry for every port the request names, in the
\* request's order, each with the status of its socket's first event.
OneEntryPerPort(results) ==
  LET ports == portsToScan(scan.request)
  IN  /\ Len(results) = Len(ports)
      /\ Len(scan.sockets) = Len(ports)
      /\ \A i \in 1..Len(ports) :
           /\ Len(scan.sockets[i].events) >= 1
           /\ results[i] = ScanEntry(ports[i], StatusOfEvent(scan.sockets[i].events[1]))

Scannable(request) ==
  /\ Truthy(request.target)
  /\ \A i \in 1..Len(portsToScan(request)) : LegalPort(portsToScan(request)[i])

===========================================================================
